---- MODULE Spec2Model ----
(***************************************************************************)
(* Dimport: replay of an archived chat export into a live channel.         *)
(* The model follows src/src/cli.rs (commands import and cancel),          *)
(* src/src/utils.rs (media resolution, reaction helpers) and               *)
(* src/src/models.rs (limits, option record, shared flag map).             *)
(***************************************************************************)
EXTENDS Integers, Sequences, FiniteSets, TLC

(***************************************************************************)
(* Bounds of the model.                                                    *)
(***************************************************************************)
\* longest message list of an export
MaxMessages == 3
\* largest number a numeric option value takes
MaxNum == 3
\* cancel commands issued in one behaviour
MaxCancels == 2
\* send operations the platform rejects in one behaviour
MaxSendFailures == 1
\* option tokens following the paths of an import command
MaxArgs == 2
\* numbered variants of one file in the media directory
MaxVariants == 3
\* calls in one bare run of the resolver
MaxCalls == 2
\* image sources of one message in a bare send_image_messages call
MaxImages == 17
\* period of the pattern of source kinds
MaxPeriod == 3
MaxCount == 3
MaxLoopImages == 4

(***************************************************************************)
(* Program constants (models.rs).                                          *)
(***************************************************************************)
MAX_EMBEDS == 10
MAX_ATTACHMENTS == 10
IMAGE_EXTENSIONS == <<"jpg", "jpeg", "png", "webp", "gif", "avif">>

(***************************************************************************)
(* Option<T>.                                                              *)
(***************************************************************************)
None == [some |-> FALSE, v |-> 0]
Some(x) == [some |-> TRUE, v |-> x]

Min(a, b) == IF a <= b THEN a ELSE b

\* usize::saturating_sub
saturating_sub(a, b) == IF a >= b THEN a - b ELSE 0

\* &messages[lo..hi]: the half-open slice; Rust panics when lo > hi or
\* hi > len.
Slice(messages, lo, hi) ==
    IF lo <= hi /\ hi <= Len(messages)
    THEN [panic |-> FALSE, out |-> SubSeq(messages, lo + 1, hi)]
    ELSE [panic |-> TRUE, out |-> <<>>]

\* select_messages without the clamp of the range end to the last index
select_messages_unclamped(messages, range_start, range_end, first, last) ==
    LET len == Len(messages) IN
    IF range_start.some /\ range_end.some
    THEN LET s == range_start.v
             e == range_end.v
         IN IF s <= e /\ s < len
            THEN Slice(messages, s, e + 1)
            ELSE [panic |-> FALSE, out |-> messages]
    ELSE IF first.some
    THEN LET n == first.v
         IN IF n > 0
            THEN Slice(messages, 0, Min(n, len))
            ELSE [panic |-> FALSE, out |-> messages]
    ELSE IF last.some
    THEN LET n == last.v
         IN IF n > 0
            THEN Slice(messages, saturating_sub(len, n), len)
            ELSE [panic |-> FALSE, out |-> messages]
    ELSE [panic |-> FALSE, out |-> messages]

\* select_messages with the last-N arm tried before the first-N arm
select_messages_last_first(messages, range_start, range_end, first, last) ==
    LET len == Len(messages) IN
    IF range_start.some /\ range_end.some
    THEN LET s == range_start.v
             e == range_end.v
         IN IF s <= e /\ s < len
            THEN Slice(messages, s, Min(e, len - 1) + 1)
            ELSE [panic |-> FALSE, out |-> messages]
    ELSE IF last.some
    THEN LET n == last.v
         IN IF n > 0
            THEN Slice(messages, saturating_sub(len, n), len)
            ELSE [panic |-> FALSE, out |-> messages]
    ELSE IF first.some
    THEN LET n == first.v
         IN IF n > 0
            THEN Slice(messages, 0, Min(n, len))
            ELSE [panic |-> FALSE, out |-> messages]
    ELSE [panic |-> FALSE, out |-> messages]

(***************************************************************************)
(* select_messages (cli.rs 19-42).  The range arm is taken whenever both   *)
(* range values are present; the first-N arm is an `else if` of it, and    *)
(* the last-N arm an `else if` of the first-N arm.                         *)
(***************************************************************************)
select_messages(messages, range_start, range_end, first, last) ==
    LET len == Len(messages) IN
    IF range_start.some /\ range_end.some
    THEN LET s == range_start.v
             e == range_end.v
         IN IF s <= e /\ s < len
            THEN Slice(messages, s, Min(e, len - 1) + 1)
            ELSE [panic |-> FALSE, out |-> messages]
    ELSE IF first.some
    THEN LET n == first.v
         IN IF n > 0
            THEN Slice(messages, 0, Min(n, len))
            ELSE [panic |-> FALSE, out |-> messages]
    ELSE IF last.some
    THEN LET n == last.v
         IN IF n > 0
            THEN Slice(messages, saturating_sub(len, n), len)
            ELSE [panic |-> FALSE, out |-> messages]
    ELSE [panic |-> FALSE, out |-> messages]

(***************************************************************************)
(* Command tokens, as split_args hands them on.  A token is a flag word    *)
(* ("--button"), a decimal number ("2"), a pair "a,b" whose halves are     *)
(* decimal or not, a path, or some other word.                             *)
(***************************************************************************)
Tok(t, a, b) == [t |-> t, a |-> a, b |-> b]
FlagTok(name) == Tok(name, 0, 0)
NumTok(n) == Tok("num", n, 0)
PairTok(s, e) == Tok("pair", s, e)
BadStartPairTok == Tok("pair_bad_start", 0, 0)
BadEndPairTok == Tok("pair_bad_end", 0, 0)
WordTok == Tok("word", 0, 0)
PathTok(p) == Tok("path", p, 0)

BoolFlags ==
    {"--no-guild", "--no-category", "--no-channel", "--no-timestamp",
     "--no-mentions", "--no-reactions", "--no-embed", "--button",
     "--reaction-users", "--outside", "--disable-button"}
ValueFlags == {"--range", "--range-start", "--range-end", "--first", "--last"}

\* str::starts_with("--")
StartsWithDashes(tok) == tok.t \in BoolFlags \cup ValueFlags \cup {"--bogus"}

(***************************************************************************)
(* ImportOptions (models.rs 87-106) and its Default.                       *)
(***************************************************************************)
DefaultOptions ==
    [no_guild |-> FALSE, no_category |-> FALSE, no_channel |-> FALSE,
     no_timestamp |-> FALSE, no_mentions |-> FALSE, no_reactions |-> FALSE,
     no_embed |-> FALSE, button |-> FALSE, reaction_users |-> FALSE,
     outside |-> FALSE, disable_button |-> FALSE, accent_color |-> FALSE,
     current_avatar |-> FALSE, range_start |-> None, range_end |-> None,
     first |-> None, last |-> None]

Ok(options) == [ok |-> TRUE, options |-> options, err |-> ""]
Err(msg) == [ok |-> FALSE, options |-> DefaultOptions, err |-> msg]

\* the inner fn parse_option (cli.rs 67-76): the value after a flag
parse_option(arguments, index, flag) ==
    IF index + 1 < Len(arguments)
    THEN IF arguments[index + 2].t = "num"
         THEN [ok |-> TRUE, v |-> arguments[index + 2].a, err |-> ""]
         ELSE [ok |-> FALSE, v |-> 0, err |-> "Invalid value for " \o flag]
    ELSE [ok |-> FALSE, v |-> 0, err |-> "Missing value for " \o flag]

\* the checks after the token loop without the --no-embed check
validate_options_without_embed_check(options) ==
    IF options.no_reactions /\ options.button
    THEN Err("--no-reactions and --button cannot be used together")
    ELSE IF options.disable_button /\ ~options.button
    THEN Err("--disable-button can only be used with --button")
    ELSE Ok(options)

\* the checks after the token loop (cli.rs 127-136)
validate_options(options) ==
    IF options.no_reactions /\ options.button
    THEN Err("--no-reactions and --button cannot be used together")
    ELSE IF options.disable_button /\ ~options.button
    THEN Err("--disable-button can only be used with --button")
    ELSE IF options.no_embed /\ ~options.outside
    THEN Err("--no-embed can only be used with --outside")
    ELSE Ok(options)

\* one boolean flag of the match (cli.rs 82-92)
set_flag(options, name) ==
    CASE name = "--no-guild" -> [options EXCEPT !.no_guild = TRUE]
      [] name = "--no-category" -> [options EXCEPT !.no_category = TRUE]
      [] name = "--no-channel" -> [options EXCEPT !.no_channel = TRUE]
      [] name = "--no-timestamp" -> [options EXCEPT !.no_timestamp = TRUE]
      [] name = "--no-mentions" -> [options EXCEPT !.no_mentions = TRUE]
      [] name = "--no-reactions" -> [options EXCEPT !.no_reactions = TRUE]
      [] name = "--no-embed" -> [options EXCEPT !.no_embed = TRUE]
      [] name = "--button" -> [options EXCEPT !.button = TRUE]
      [] name = "--reaction-users" -> [options EXCEPT !.reaction_users = TRUE]
      [] name = "--outside" -> [options EXCEPT !.outside = TRUE]
      [] name = "--disable-button" -> [options EXCEPT !.disable_button = TRUE]

\* one numeric option of the match (cli.rs 111-122)
set_value(options, name, v) ==
    CASE name = "--range-start" -> [options EXCEPT !.range_start = Some(v)]
      [] name = "--range-end" -> [options EXCEPT !.range_end = Some(v)]
      [] name = "--first" -> [options EXCEPT !.first = Some(v)]
      [] name = "--last" -> [options EXCEPT !.last = Some(v)]

\* the while loop of parse_options from position index (cli.rs 79-126)
RECURSIVE parse_from(_, _, _)
parse_from(arguments, index, options) ==
    IF index >= Len(arguments)
    THEN validate_options(options)
    ELSE LET argument == arguments[index + 1] IN
         IF argument.t \in BoolFlags
         THEN parse_from(arguments, index + 1, set_flag(options, argument.t))
         ELSE IF argument.t = "--range"
         THEN IF index + 1 < Len(arguments)
              THEN LET value == arguments[index + 2] IN
                   IF value.t = "pair"
                   THEN parse_from(arguments, index + 2,
                            [options EXCEPT !.range_start = Some(value.a),
                                            !.range_end = Some(value.b)])
                   ELSE IF value.t = "pair_bad_start"
                   THEN Err("Invalid start value in --range")
                   ELSE IF value.t = "pair_bad_end"
                   THEN Err("Invalid end value in --range")
                   ELSE Err("Invalid format for --range. Use start,end")
              ELSE Err("Missing value for --range")
         ELSE IF argument.t \in ValueFlags
         THEN LET r == parse_option(arguments, index, argument.t) IN
              IF r.ok
              THEN parse_from(arguments, index + 2,
                              set_value(options, argument.t, r.v))
              ELSE Err(r.err)
         ELSE Err("Unknown option")

\* parse_options (cli.rs 66-137)
parse_options(arguments) == parse_from(arguments, 0, DefaultOptions)

(***************************************************************************)
(* Files.  A file name is <base><_NNN>*.<ext>; sfx lists the numbered      *)
(* suffixes, upper says the name is written in capitals.  A path is a      *)
(* directory (below the media root) and a file name.                       *)
(***************************************************************************)
FileName(base, sfx, ext, upper) ==
    [base |-> base, sfx |-> sfx, ext |-> ext, upper |-> upper]
Path(dir, file) == [dir |-> dir, file |-> file]
NoFile == FileName("", <<>>, "", FALSE)
NoPath == Path(<<>>, NoFile)

\* str::to_ascii_lowercase
to_ascii_lowercase(file) == [file EXCEPT !.upper = FALSE]

\* is_image_file (utils.rs 11-15)
is_image_file(file) ==
    \E k \in DOMAIN IMAGE_EXTENSIONS : file.ext = IMAGE_EXTENSIONS[k]

\* Path::starts_with
IsPrefix(d, e) == Len(d) <= Len(e) /\ SubSeq(e, 1, Len(d)) = d

RECURSIVE SeqToSet(_)
SeqToSet(s) == IF s = <<>> THEN {} ELSE {Head(s)} \cup SeqToSet(Tail(s))

RECURSIVE Flatten(_)
Flatten(ss) == IF ss = <<>> THEN <<>> ELSE Head(ss) \o Flatten(Tail(ss))

(***************************************************************************)
(* The media tree on disk: its directories, its files in directory-walk    *)
(* order, and the files that exist but cannot be read.                     *)
(***************************************************************************)
ChatDir == <<"channels", "chat">>
AvatarDir == <<"avatars">>
APng == Path(ChatDir, FileName("a", <<>>, "png", FALSE))
APng1 == Path(ChatDir, FileName("a", <<1>>, "png", FALSE))
BPng == Path(ChatDir, FileName("b", <<>>, "png", FALSE))
DocPdf == Path(ChatDir, FileName("doc", <<>>, "pdf", FALSE))
Avatar1 == Path(AvatarDir, FileName("u1", <<>>, "png", FALSE))

MediaTree ==
    [dirs |-> {<<"avatars">>, <<"channels">>, ChatDir},
     walk |-> <<Avatar1, APng, APng1, BPng, DocPdf>>,
     unreadable |-> {BPng}]
EmptyTree == [dirs |-> {}, walk |-> <<>>, unreadable |-> {}]

\* Path::exists
exists(tree, path) == path \in SeqToSet(tree.walk)
\* CreateAttachment::path(..).await is Ok
loads(tree, path) == exists(tree, path) /\ path \notin tree.unreadable

(***************************************************************************)
(* locate_media_dirs (utils.rs 50-80) and scan_files (utils.rs 34-49).     *)
(***************************************************************************)
locate_media_dirs(tree, export_name) ==
    LET has_subdirs == \E d \in tree.dirs : Len(d) = 1
        named(n) == IF <<n>> \in tree.dirs THEN <<(<<n>>)>> ELSE <<>>
        channels_root == <<"channels">>
        channel_specific_path == <<"channels", export_name>>
        channels ==
            IF channels_root \in tree.dirs
            THEN IF channel_specific_path \in tree.dirs
                 THEN <<channel_specific_path>>
                 ELSE <<channels_root>>
            ELSE <<>>
        search_paths ==
            named("avatars") \o named("emojis") \o named("icons") \o channels
    IN IF ~has_subdirs THEN <<(<<>>)>>
       ELSE IF search_paths = <<>> THEN <<(<<>>)>>
       ELSE search_paths

\* the index as the scanned paths in scan order; the entry of a key is the
\* subsequence of the paths whose lower-cased file name is the key
scan_files(tree, paths) ==
    Flatten([k \in DOMAIN paths |->
        SelectSeq(tree.walk, LAMBDA p : IsPrefix(paths[k], p.dir))])

\* FileIndex::get
index_get(index, key) ==
    SelectSeq(index, LAMBDA p : to_ascii_lowercase(p.file) = key)

(***************************************************************************)
(* Media roots a command can name: directories, archives, archive URLs.    *)
(***************************************************************************)
MediaRoot(kind, present, extracts, tree) ==
    [kind |-> kind, present |-> present, extracts |-> extracts, tree |-> tree]
MediaRoots ==
    11 :> MediaRoot("dir", TRUE, TRUE, MediaTree)
    @@ 12 :> MediaRoot("dir", FALSE, TRUE, EmptyTree)
    @@ 13 :> MediaRoot("zip", TRUE, TRUE, MediaTree)
    @@ 14 :> MediaRoot("zip", FALSE, TRUE, EmptyTree)
    @@ 15 :> MediaRoot("url", TRUE, FALSE, EmptyTree)
    @@ 16 :> MediaRoot("zip", TRUE, FALSE, EmptyTree)
    @@ 17 :> MediaRoot("url", FALSE, TRUE, EmptyTree)

NoIndex == [some |-> FALSE, paths |-> <<>>, tree |-> EmptyTree]

\* create_file_index (utils.rs 131-169): media_path is an Option of a
\* token; a token that names no known root is a directory that is absent
create_file_index(media_path, export_name) ==
    IF ~media_path.some THEN NoIndex
    ELSE LET known == media_path.v.t = "path"
                      /\ media_path.v.a \in DOMAIN MediaRoots
             root == IF known THEN MediaRoots[media_path.v.a]
                     ELSE MediaRoot("dir", FALSE, TRUE, EmptyTree)
             scanned ==
                 [some |-> TRUE,
                  paths |-> scan_files(root.tree,
                               locate_media_dirs(root.tree, export_name)),
                  tree |-> root.tree]
         IN IF root.kind = "url"
            THEN IF root.present /\ root.extracts THEN scanned ELSE NoIndex
            ELSE IF root.kind = "zip"
            THEN IF root.present /\ root.extracts THEN scanned ELSE NoIndex
            ELSE scanned

(***************************************************************************)
(* Export data (models.rs 20-86).  A message body is a sequence of words;  *)
(* a reaction keeps, per user record, whether it is an object with a       *)
(* string id.                                                              *)
(***************************************************************************)
Attachment(url, file_name) == [url |-> url, file_name |-> file_name]
Mention(id, display) == [id |-> id, display |-> display]
Reaction(emoji, users) == [emoji |-> emoji, users |-> users]
MessageInfo(id, content, author, attachments, mentions, reactions) ==
    [id |-> id, content |-> content, author |-> author,
     attachments |-> attachments, mentions |-> mentions,
     reactions |-> reactions]
Export(guild, category, channel, messages) ==
    [guild |-> guild, category |-> category, channel |-> channel,
     messages |-> messages]

\* MediaSource (models.rs 107-110)
Local(path, filename) ==
    [k |-> "Local", path |-> path, name |-> filename, url |-> ""]
Remote(url) == [k |-> "Remote", path |-> NoPath, name |-> NoFile, url |-> url]
NoSource == [k |-> "None", path |-> NoPath, name |-> NoFile, url |-> ""]

(***************************************************************************)
(* generate_footer (utils.rs 170-189): the parts that are shown; the       *)
(* joined text is empty exactly when they are all empty.                   *)
(***************************************************************************)
generate_footer(export, no_guild, no_category, no_channel) ==
    (IF ~no_guild THEN <<export.guild>> ELSE <<>>)
    \o (IF ~no_category /\ export.category.some
        THEN <<export.category.v>> ELSE <<>>)
    \o (IF ~no_channel THEN <<export.channel>> ELSE <<>>)

\* String::is_empty of parts.join(" | ")
footer_is_empty(parts) ==
    Len(parts) = 0 \/ (Len(parts) = 1 /\ parts[1] = "")

\* build_completion_message that names guild, category and channel whatever
\* the flags
build_completion_message_unfiltered(export, no_guild, no_category, no_channel) ==
    [text |-> "Successfully imported",
     footer |-> generate_footer(export, FALSE, FALSE, FALSE)]

\* build_completion_message (cli.rs 6-18)
build_completion_message(export, no_guild, no_category, no_channel) ==
    LET footer_text == generate_footer(export, no_guild, no_category, no_channel)
    IN IF footer_is_empty(footer_text)
       THEN [text |-> "Successfully imported", footer |-> <<>>]
       ELSE [text |-> "Successfully imported", footer |-> footer_text]

\* replace_mentions (utils.rs 310-322): each word "@<display name>" becomes
\* the clickable "<@id>"
RECURSIVE apply_mentions(_, _)
apply_mentions(content, mentions) ==
    IF mentions = <<>> THEN content
    ELSE apply_mentions(
             [k \in DOMAIN content |->
                 IF content[k] = "@" \o Head(mentions).display
                 THEN "<@" \o Head(mentions).id \o ">"
                 ELSE content[k]],
             Tail(mentions))
replace_mentions(content, mentions, no_mentions) ==
    IF no_mentions THEN content ELSE apply_mentions(content, mentions)

\* format_reaction_users (utils.rs 358-382): one line per reaction that
\* has a user with a string id
format_reaction_users(reactions) ==
    SelectSeq(reactions, LAMBDA r : \E k \in DOMAIN r.users : r.users[k])

\* create_buttons / create_reactions (utils.rs 395-421): one per record
create_buttons(reactions) == [k \in DOMAIN reactions |-> reactions[k].emoji]
create_reactions(reactions) == [k \in DOMAIN reactions |-> reactions[k].emoji]

\* with_reaction_buttons (utils.rs 422-435): whether the row is put on
with_reaction_buttons(button, reactions) ==
    button /\ reactions # <<>> /\ create_buttons(reactions) # <<>>

(***************************************************************************)
(* find_avatar (utils.rs 237-248).                                         *)
(***************************************************************************)
RECURSIVE avatar_from(_, _, _)
avatar_from(author_id, index, k) ==
    IF k > Len(IMAGE_EXTENSIONS) THEN [some |-> FALSE, path |-> NoPath]
    ELSE LET filename == FileName(author_id, <<>>, IMAGE_EXTENSIONS[k], FALSE)
             paths == index_get(index, filename)
         IN IF paths # <<>> THEN [some |-> TRUE, path |-> paths[1]]
            ELSE avatar_from(author_id, index, k + 1)
find_avatar(author_id, index) == avatar_from(author_id, index, 1)

(***************************************************************************)
(* find_local_files (utils.rs 249-284).                                    *)
(***************************************************************************)
variant_path(path, i) == [path EXCEPT !.file.sfx = Append(@, i)]

\* the probe of find_local_files that ends at a variant already claimed
RECURSIVE probe_variants_ending_at_claimed(_, _, _, _)
probe_variants_ending_at_claimed(tree, path, i, acc) ==
    LET variant == variant_path(path, i) IN
    IF ~exists(tree, variant) \/ variant \in acc.seen THEN acc
    ELSE probe_variants_ending_at_claimed(tree, path, i + 1,
             [found |-> Append(acc.found, Local(variant, variant.file)),
              seen |-> acc.seen \cup {variant}])

\* the probe that returns a variant whether or not it is claimed already
RECURSIVE probe_variants_reclaiming(_, _, _, _)
probe_variants_reclaiming(tree, path, i, acc) ==
    LET variant == variant_path(path, i) IN
    IF ~exists(tree, variant) THEN acc
    ELSE probe_variants_reclaiming(tree, path, i + 1,
             [found |-> Append(acc.found, Local(variant, variant.file)),
              seen |-> acc.seen \cup {variant}])

\* the probe `for i in 1..` from index i
RECURSIVE probe_variants(_, _, _, _)
probe_variants(tree, path, i, acc) ==
    LET variant == variant_path(path, i) IN
    IF ~exists(tree, variant) THEN acc
    ELSE IF variant \notin acc.seen
    THEN probe_variants(tree, path, i + 1,
             [found |-> Append(acc.found, Local(variant, variant.file)),
              seen |-> acc.seen \cup {variant}])
    ELSE probe_variants(tree, path, i + 1, acc)

\* find_local_files without the probe for numbered variants
find_local_files_exact_only(filename, file_index, seen_paths) ==
    LET candidates == index_get(file_index.paths, to_ascii_lowercase(filename))
        unclaimed == SelectSeq(candidates, LAMBDA p : p \notin seen_paths)
    IN IF unclaimed = <<>> THEN [found |-> <<>>, seen |-> seen_paths]
       ELSE [found |-> <<Local(unclaimed[1], filename)>>,
             seen |-> seen_paths \cup {unclaimed[1]}]

find_local_files(filename, file_index, seen_paths) ==
    LET candidates == index_get(file_index.paths, to_ascii_lowercase(filename))
        unclaimed == SelectSeq(candidates, LAMBDA p : p \notin seen_paths)
    IN IF unclaimed = <<>> THEN [found |-> <<>>, seen |-> seen_paths]
       ELSE LET path == unclaimed[1]
                first == [found |-> <<Local(path, filename)>>,
                          seen |-> seen_paths \cup {path}]
            IN IF path.file.ext # ""
               THEN probe_variants(file_index.tree, path, 1, first)
               ELSE first

\* collect_sources that drops an attachment that has no local file
RECURSIVE collect_from_without_fallback(_, _, _, _, _)
collect_from_without_fallback(attachments, file_index, images_only, k, acc) ==
    IF k > Len(attachments) THEN acc
    ELSE LET attachment_info == attachments[k] IN
         IF images_only /\ ~is_image_file(attachment_info.file_name)
         THEN collect_from_without_fallback(attachments, file_index,
                  images_only, k + 1, acc)
         ELSE LET r == IF file_index.some
                       THEN find_local_files(attachment_info.file_name,
                                             file_index, acc.seen)
                       ELSE [found |-> <<>>, seen |-> acc.seen]
              IN collect_from_without_fallback(attachments, file_index,
                     images_only, k + 1,
                     [sources |-> acc.sources \o r.found, seen |-> r.seen])

\* collect_sources that adds the URL after the local files as well
RECURSIVE collect_from_with_remote(_, _, _, _, _)
collect_from_with_remote(attachments, file_index, images_only, k, acc) ==
    IF k > Len(attachments) THEN acc
    ELSE LET attachment_info == attachments[k] IN
         IF images_only /\ ~is_image_file(attachment_info.file_name)
         THEN collect_from_with_remote(attachments, file_index, images_only,
                                       k + 1, acc)
         ELSE LET r == IF file_index.some
                       THEN find_local_files(attachment_info.file_name,
                                             file_index, acc.seen)
                       ELSE [found |-> <<>>, seen |-> acc.seen]
              IN collect_from_with_remote(attachments, file_index,
                     images_only, k + 1,
                     [sources |-> acc.sources \o r.found
                                  \o <<Remote(attachment_info.url)>>,
                      seen |-> r.seen])

(***************************************************************************)
(* collect_sources (utils.rs 285-309).                                     *)
(***************************************************************************)
RECURSIVE collect_from(_, _, _, _, _)
collect_from(attachments, file_index, images_only, k, acc) ==
    IF k > Len(attachments) THEN acc
    ELSE LET attachment_info == attachments[k] IN
         IF images_only /\ ~is_image_file(attachment_info.file_name)
         THEN collect_from(attachments, file_index, images_only, k + 1, acc)
         ELSE LET r == IF file_index.some
                       THEN find_local_files(attachment_info.file_name,
                                             file_index, acc.seen)
                       ELSE [found |-> <<>>, seen |-> acc.seen]
                  found_local == r.found # <<>>
              IN collect_from(attachments, file_index, images_only, k + 1,
                     [sources |-> acc.sources \o
                          (IF found_local THEN r.found
                           ELSE <<Remote(attachment_info.url)>>),
                      seen |-> r.seen])

collect_sources(message, file_index, seen_paths, images_only) ==
    collect_from(message.attachments, file_index, images_only, 1,
                 [sources |-> <<>>, seen |-> seen_paths])

(***************************************************************************)
(* Outbound batches.  An embed is the metadata embed (author, footer,      *)
(* timestamp, colour) or a bare one; it may carry a description and an     *)
(* image.  A batch is what one send_reply call carries.                    *)
(***************************************************************************)
Embed(meta, footer, desc, image) ==
    [meta |-> meta, footer |-> footer, desc |-> desc, image |-> image]
Batch(kind, embeds, attachments, content, buttons, count) ==
    [kind |-> kind, embeds |-> embeds, attachments |-> attachments,
     content |-> content, buttons |-> buttons, count |-> count]
NoBatch == Batch("none", <<>>, <<>>, <<>>, FALSE, 0)

\* create_embed_base (utils.rs 193-236): the footer is the part of it the
\* options decide
create_embed_base(export, no_guild, no_category, no_channel) ==
    Embed(TRUE, generate_footer(export, no_guild, no_category, no_channel),
          <<>>, NoSource)

\* attach_author_avatar (cli.rs 166-176) and the avatar of the first batch
\* (cli.rs 211-217): the attachment, when the file loads
avatar_attachment(tree, author_avatar_file) ==
    IF author_avatar_file.some /\ loads(tree, author_avatar_file.path)
    THEN <<author_avatar_file.path>> ELSE <<>>

\* the for loop of prepare_batch that ends at a local file that does not load
RECURSIVE batch_loop_ending_on_failure(_, _, _, _, _, _, _)
batch_loop_ending_on_failure(tree, images, base_embed, is_first_batch, content, k, acc) ==
    IF k > Len(images) THEN acc
    ELSE LET source == images[k] IN
    IF Len(acc.embeds) >= MAX_EMBEDS THEN acc
    ELSE IF source.k = "Local" /\ Len(acc.attachments) >= MAX_ATTACHMENTS
    THEN acc
    ELSE IF source.k = "Local" /\ ~loads(tree, source.path) THEN acc
    ELSE batch_loop_ending_on_failure(tree, images, base_embed,
             is_first_batch, content, k + 1,
             [attachments |->
                  IF source.k = "Local"
                  THEN Append(acc.attachments, source.path)
                  ELSE acc.attachments,
              embeds |-> Append(acc.embeds,
                             [(IF acc.count = 0 /\ is_first_batch
                               THEN [base_embed EXCEPT !.desc = content]
                               ELSE Embed(FALSE, <<>>, <<>>, NoSource))
                              EXCEPT !.image = source]),
              count |-> acc.count + 1])

(***************************************************************************)
(* prepare_batch (cli.rs 200-256): the for loop from source k, acc holding *)
(* attachments, embeds and images_processed.                               *)
(***************************************************************************)
RECURSIVE batch_loop(_, _, _, _, _, _, _)
batch_loop(tree, images, base_embed, is_first_batch, content, k, acc) ==
    IF k > Len(images) THEN acc
    ELSE LET source == images[k] IN
    IF Len(acc.embeds) >= MAX_EMBEDS THEN acc
    ELSE IF source.k = "Local" /\ Len(acc.attachments) >= MAX_ATTACHMENTS
    THEN acc
    ELSE LET embed_builder ==
                 IF acc.count = 0 /\ is_first_batch
                 THEN [base_embed EXCEPT !.desc = content]
                 ELSE Embed(FALSE, <<>>, <<>>, NoSource)
         IN IF source.k = "Local" /\ ~loads(tree, source.path)
            THEN batch_loop(tree, images, base_embed, is_first_batch,
                            content, k + 1, acc)
            ELSE batch_loop(tree, images, base_embed, is_first_batch,
                     content, k + 1,
                     [attachments |->
                          IF source.k = "Local"
                          THEN Append(acc.attachments, source.path)
                          ELSE acc.attachments,
                      embeds |-> Append(acc.embeds,
                                     [embed_builder EXCEPT !.image = source]),
                      count |-> acc.count + 1])

\* prepare_batch that adds the avatar without counting it against the limit
prepare_batch_avatar_uncounted(tree, images, base_embed, author_avatar_file, is_first_batch, content) ==
    LET batch == batch_loop(tree, images, base_embed, is_first_batch, content,
                     1, [attachments |-> <<>>, embeds |-> <<>>, count |-> 0])
    IN [batch EXCEPT
           !.attachments =
               (IF is_first_batch
                THEN avatar_attachment(tree, author_avatar_file)
                ELSE <<>>) \o @]

prepare_batch(tree, images, base_embed, author_avatar_file, is_first_batch, content) ==
    batch_loop(tree, images, base_embed, is_first_batch, content, 1,
        [attachments |-> IF is_first_batch
                         THEN avatar_attachment(tree, author_avatar_file)
                         ELSE <<>>,
         embeds |-> <<>>,
         count |-> 0])

\* send_image_messages that builds every batch as the first one
RECURSIVE image_batches_all_first(_, _, _, _, _, _, _)
image_batches_all_first(tree, remaining_images, base_embed, author_avatar_file, is_first_batch, content, buttons) ==
    IF remaining_images = <<>> THEN <<>>
    ELSE LET batch == prepare_batch(tree, remaining_images, base_embed,
                          author_avatar_file, TRUE, content)
             sent == IF batch.embeds # <<>>
                     THEN <<Batch("image", batch.embeds, batch.attachments,
                                  <<>>,
                                  Len(remaining_images) <= batch.count
                                      /\ buttons,
                                  batch.count)>>
                     ELSE <<>>
         IN IF batch.count = 0 THEN sent
            ELSE sent \o image_batches_all_first(tree,
                     SubSeq(remaining_images, batch.count + 1,
                            Len(remaining_images)),
                     base_embed, author_avatar_file, TRUE, content, buttons)

(***************************************************************************)
(* send_image_messages (cli.rs 293-323): the batches the while loop hands  *)
(* to send_reply, in order.                                                *)
(***************************************************************************)
RECURSIVE image_batches(_, _, _, _, _, _, _)
image_batches(tree, remaining_images, base_embed, author_avatar_file, is_first_batch, content, buttons) ==
    IF remaining_images = <<>> THEN <<>>
    ELSE LET batch == prepare_batch(tree, remaining_images, base_embed,
                          author_avatar_file, is_first_batch, content)
             sent == IF batch.embeds # <<>>
                     THEN <<Batch("image", batch.embeds, batch.attachments,
                                  <<>>,
                                  Len(remaining_images) <= batch.count
                                      /\ buttons,
                                  batch.count)>>
                     ELSE <<>>
         IN IF batch.count = 0 THEN sent
            ELSE sent \o image_batches(tree,
                     SubSeq(remaining_images, batch.count + 1,
                            Len(remaining_images)),
                     base_embed, author_avatar_file, FALSE, content, buttons)

\* send_text_message that sends its embed whatever the body and the avatar
text_batches_unconditional(tree, base_embed, author_avatar_file, content, buttons) ==
    <<Batch("text", <<[base_embed EXCEPT !.desc = content]>>,
            avatar_attachment(tree, author_avatar_file), <<>>, buttons, 0)>>

(***************************************************************************)
(* send_text_message (cli.rs 268-275): the batch it sends, if any.         *)
(***************************************************************************)
text_batches(tree, base_embed, author_avatar_file, content, buttons) ==
    IF content = <<>> /\ ~author_avatar_file.some THEN <<>>
    ELSE <<Batch("text", <<[base_embed EXCEPT !.desc = content]>>,
                 avatar_attachment(tree, author_avatar_file), <<>>,
                 buttons, 0)>>

\* send_outside_message that sends the metadata batch after the chunks
outside_batches_metadata_last(tree, attachment_sources, base_embed, has_embed, author_avatar_file, body, buttons) ==
    LET loaded == SelectSeq(attachment_sources,
                      LAMBDA x : x.k = "Local" /\ loads(tree, x.path))
        locals == [k \in DOMAIN loaded |-> loaded[k].path]
        remote == SelectSeq(attachment_sources, LAMBDA x : x.k = "Remote")
        content == body \o [k \in DOMAIN remote |-> remote[k].url]
        batch_size == Min(MAX_ATTACHMENTS, Len(locals))
    IN (IF content # <<>> \/ locals # <<>>
        THEN <<Batch("chunk", <<>>, SubSeq(locals, 1, batch_size), content,
                     buttons, batch_size)>>
        ELSE <<>>)
       \o (IF has_embed
           THEN <<Batch("meta", <<base_embed>>,
                        avatar_attachment(tree, author_avatar_file),
                        <<>>, FALSE, 0)>>
           ELSE <<>>)

\* the while loop of send_outside_message that sends no further chunk
later_chunks_dropped(remaining_locals, buttons) == <<>>

(***************************************************************************)
(* send_outside_message (cli.rs 355-408): the metadata batch and the       *)
(* attachment chunks, in order.                                            *)
(***************************************************************************)
RECURSIVE later_chunks(_, _)
later_chunks(remaining_locals, buttons) ==
    IF remaining_locals = <<>> THEN <<>>
    ELSE LET batch_size == Min(MAX_ATTACHMENTS, Len(remaining_locals)) IN
         <<Batch("chunk", <<>>, SubSeq(remaining_locals, 1, batch_size),
                 <<>>, buttons, batch_size)>>
         \o later_chunks(SubSeq(remaining_locals, batch_size + 1,
                                Len(remaining_locals)), buttons)

outside_batches(tree, attachment_sources, base_embed, has_embed, author_avatar_file, body, buttons) ==
    LET loaded == SelectSeq(attachment_sources,
                      LAMBDA x : x.k = "Local" /\ loads(tree, x.path))
        locals == [k \in DOMAIN loaded |-> loaded[k].path]
        remote == SelectSeq(attachment_sources, LAMBDA x : x.k = "Remote")
        remotes == [k \in DOMAIN remote |-> remote[k].url]
        content == body \o remotes
        metadata ==
            IF has_embed
            THEN <<Batch("meta", <<base_embed>>,
                         avatar_attachment(tree, author_avatar_file),
                         <<>>, FALSE, 0)>>
            ELSE <<>>
        batch_size == Min(MAX_ATTACHMENTS, Len(locals))
    IN metadata \o
       (IF content # <<>> \/ locals # <<>>
        THEN <<Batch("chunk", <<>>, SubSeq(locals, 1, batch_size), content,
                     buttons, batch_size)>>
             \o later_chunks(SubSeq(locals, batch_size + 1, Len(locals)),
                             buttons)
        ELSE <<>>)

(***************************************************************************)
(* State.                                                                  *)
(*   cancellation_flags  Data.cancellation_flags: channel -> bool, a key   *)
(*                       being present or absent                           *)
(*   imp                 the import commands: position, locals, and the    *)
(*                       sends each has made so far                        *)
(*   json_files          the JSON documents on disk, by path               *)
(*   cancel_log          the replies of the cancel commands so far         *)
(*   failures            send operations the platform has rejected         *)
(*   sel_in, sel_out     argument and result of a bare select_messages     *)
(*                       call                                              *)
(*   resolver            the file index and seen_paths of a run of bare    *)
(*                       find_local_files / collect_sources calls, with    *)
(*                       the calls made so far; or the media directory,    *)
(*                       scan roots and index of a bare locate_media_dirs  *)
(*                       and scan_files call                               *)
(*   composer            arguments and batches of a bare                   *)
(*                       send_image_messages or send_outside_message call  *)
(***************************************************************************)
VARIABLES cancellation_flags, imp, json_files, cancel_log, failures,
          sel_in, sel_out, resolver, composer
vars == <<cancellation_flags, imp, json_files, cancel_log, failures,
          sel_in, sel_out, resolver, composer>>

Channels == {"c1", "c2"}

\* HashMap::insert / remove / get on the flag map
flags_insert(flags, channel, value) ==
    [c \in DOMAIN flags \cup {channel} |->
        IF c = channel THEN value ELSE flags[c]]
flags_remove(flags, channel) ==
    [c \in DOMAIN flags \ {channel} |-> flags[c]]
NoFlags == [c \in {} |-> FALSE]

\* set_cancellation / remove_cancellation / is_cancelled (cli.rs 138-154)
set_cancellation(flags, channel, value) == flags_insert(flags, channel, value)
\* remove_cancellation that leaves the entry in the map
keep_cancellation(flags, channel) == flags
remove_cancellation(flags, channel) == flags_remove(flags, channel)
is_cancelled(flags, channel) ==
    IF channel \in DOMAIN flags THEN flags[channel] ELSE FALSE

\* load_export (utils.rs 436-451)
NoExport == Export("", None, "", <<>>)
load_export(files, json_path) ==
    IF json_path.t = "path" /\ json_path.a \in DOMAIN files
    THEN [ok |-> TRUE, export |-> files[json_path.a]]
    ELSE [ok |-> FALSE, export |-> NoExport]

\* extract_export_name (utils.rs 22-33): the stem of the document's name
extract_export_name(json_path) == IF json_path.t = "path" THEN "chat" ELSE ""

(***************************************************************************)
(* What an import has sent: one entry per send operation, in order.        *)
(*   op     "say" (a notice), "batch", "edit", "react"                     *)
(*   msg    the id of the message it belongs to, -1 for a notice           *)
(*   ok     the platform accepted it                                       *)
(*   delay  MESSAGE_DELAY was slept after it                               *)
(***************************************************************************)
Entry(op, text, msg, ok, delay, batch, n, footer) ==
    [op |-> op, text |-> text, msg |-> msg, ok |-> ok, delay |-> delay,
     batch |-> batch, n |-> n, footer |-> footer]
Notice(text, ok, n, footer) ==
    Entry("say", text, -1, ok, FALSE, NoBatch, n, footer)

NoAvatar == [some |-> FALSE, path |-> NoPath]
NoCur == [mode |-> "", batches |-> <<>>, sent |-> 0, last_msg |-> None,
          rleft |-> <<>>]

\* an import command that has not run yet; pc is "off" for a command that
\* is never issued
Pending(pc, channel, tokens) ==
    [pc |-> pc, channel |-> channel, tokens |-> tokens,
     options |-> DefaultOptions, export |-> NoExport, sel |-> <<>>,
     media_path |-> None, file_index |-> NoIndex, seen_paths |-> {},
     idx |-> 0, cancelled |-> FALSE, cur |-> NoCur, log |-> <<>>]
Idle(channel, tokens) == Pending("idle", channel, tokens)
Off == Pending("off", "c1", <<>>)

\* the outcomes the platform may give the next send
OkChoices == {TRUE} \cup (IF failures < MaxSendFailures THEN {FALSE} ELSE {})
Count(ok) == IF ok THEN failures ELSE failures + 1

(***************************************************************************)
(* import, up to the progress notice (cli.rs 534-581).                     *)
(***************************************************************************)
import_prologue(r, files, ok) ==
    LET argument_tokens == r.tokens
        done(text, n) ==
            [r EXCEPT !.pc = "done",
                      !.log = Append(@, Notice(text, ok, n, <<>>))]
    IN IF argument_tokens = <<>>
       THEN done("Command requires a path to a JSON file.", 0)
       ELSE
       LET json_path == argument_tokens[1]
           has_media == Len(argument_tokens) > 1
                        /\ ~StartsWithDashes(argument_tokens[2])
           media_path == IF has_media THEN Some(argument_tokens[2]) ELSE None
           options_tokens ==
               SubSeq(argument_tokens, IF has_media THEN 3 ELSE 2,
                      Len(argument_tokens))
           parsed == parse_options(options_tokens)
           loaded == load_export(files, json_path)
           options == parsed.options
           selected == select_messages(loaded.export.messages,
                           options.range_start, options.range_end,
                           options.first, options.last)
           messages_to_process == selected.out
       IN IF ~parsed.ok THEN done("Error parsing options", 0)
          ELSE IF ~loaded.ok THEN done("Error reading JSON file", 0)
          ELSE IF selected.panic THEN [r EXCEPT !.pc = "panic"]
          ELSE IF messages_to_process = <<>>
          THEN done("No messages to import.", 0)
          ELSE [r EXCEPT
                   !.pc = IF ok THEN "begin" ELSE "done",
                   !.options = options,
                   !.export = loaded.export,
                   !.sel = messages_to_process,
                   !.media_path = media_path,
                   !.log = Append(@, Notice("Importing messages", ok,
                                      Len(messages_to_process), <<>>))]

ImportStart(i) ==
    /\ imp[i].pc = "idle"
    /\ \E ok \in OkChoices :
          /\ imp' = [imp EXCEPT ![i] = import_prologue(imp[i], json_files, ok)]
          /\ failures' = Count(ok)
    /\ UNCHANGED <<cancellation_flags, json_files, cancel_log, sel_in, sel_out,
                   resolver, composer>>

(***************************************************************************)
(* import: the index, the empty seen set and the flag reset (582-585).     *)
(***************************************************************************)
ImportBegin(i) ==
    /\ imp[i].pc = "begin"
    /\ imp' = [imp EXCEPT ![i] =
                  [@ EXCEPT !.pc = "poll",
                            !.file_index =
                                create_file_index(imp[i].media_path,
                                    extract_export_name(imp[i].tokens[1])),
                            !.seen_paths = {},
                            !.cancelled = FALSE,
                            !.idx = 0]]
    /\ cancellation_flags' =
           set_cancellation(cancellation_flags, imp[i].channel, FALSE)
    /\ UNCHANGED <<json_files, cancel_log, failures, sel_in, sel_out,
                   resolver, composer>>

(***************************************************************************)
(* process_message (cli.rs 429-532), cut at its send operations.           *)
(* cur.batches are the batches still to hand to send_reply, cur.sent the   *)
(* number handed over, cur.last_msg the last one the platform accepted,    *)
(* cur.rleft the native reactions still to add.                            *)
(***************************************************************************)
current_message(r) == r.sel[r.idx + 1]

\* end_message that does not advance the position
end_message_same_index(r) == [r EXCEPT !.pc = "poll", !.cur = NoCur]

\* the end of process_message: the loop moves to the next message
end_message(r) == [r EXCEPT !.pc = "poll", !.idx = @ + 1, !.cur = NoCur]

\* the end of process_message that adds the reactions beside the buttons
after_listing_despite_buttons(r) ==
    LET message == current_message(r) IN
    IF r.cur.last_msg.some /\ ~r.options.no_reactions
       /\ message.reactions # <<>>
    THEN [r EXCEPT !.pc = "react",
                   !.cur.rleft = create_reactions(message.reactions)]
    ELSE [r EXCEPT !.pc = "poll", !.idx = @ + 1, !.cur = NoCur]

\* cli.rs 527-531: native reactions on the last sent message
after_listing(r) ==
    LET message == current_message(r) IN
    IF r.cur.last_msg.some /\ ~r.options.button /\ ~r.options.no_reactions
       /\ message.reactions # <<>>
    THEN [r EXCEPT !.pc = "react",
                   !.cur.rleft = create_reactions(message.reactions)]
    ELSE end_message(r)

\* show_reaction_users (cli.rs 155-165)
after_edit(r) ==
    LET message == current_message(r) IN
    IF r.options.reaction_users /\ message.reactions # <<>>
       /\ format_reaction_users(message.reactions) # <<>>
    THEN [r EXCEPT !.pc = "listing"]
    ELSE after_listing(r)

\* the end of send_outside_message without the edit of the last message
after_batches_without_edit(r) ==
    LET message == current_message(r) IN
    IF r.options.reaction_users /\ message.reactions # <<>>
       /\ format_reaction_users(message.reactions) # <<>>
    THEN [r EXCEPT !.pc = "listing"]
    ELSE after_listing(r)

\* cli.rs 409-418: the button row edited onto the last sent message
after_batches(r) ==
    LET message == current_message(r) IN
    IF r.cur.mode = "outside" /\ r.cur.last_msg.some /\ r.options.button
       /\ message.reactions # <<>> /\ create_buttons(message.reactions) # <<>>
    THEN [r EXCEPT !.pc = "edit"]
    ELSE after_edit(r)

\* cli.rs 447-526: avatar, sources and the batches of the message's mode
begin_message(r) ==
    LET message == current_message(r)
        o == r.options
        tree == r.file_index.tree
        author_avatar_file ==
            IF o.no_embed \/ ~r.file_index.some THEN NoAvatar
            ELSE find_avatar(message.author, r.file_index.paths)
        collected == collect_sources(message, r.file_index, r.seen_paths,
                                     ~o.outside)
        base_embed == create_embed_base(r.export, o.no_guild, o.no_category,
                                        o.no_channel)
        content == replace_mentions(message.content, message.mentions,
                                    o.no_mentions)
        buttons == with_reaction_buttons(o.button, message.reactions)
        mode == IF o.outside THEN "outside"
                ELSE IF collected.sources = <<>> THEN "text" ELSE "image"
        batches ==
            IF mode = "outside"
            THEN outside_batches(tree, collected.sources, base_embed,
                                 ~o.no_embed, author_avatar_file, content,
                                 buttons)
            ELSE IF mode = "text"
            THEN text_batches(tree, base_embed, author_avatar_file, content,
                              buttons)
            ELSE image_batches(tree, collected.sources, base_embed,
                               author_avatar_file, TRUE, content, buttons)
        started == [r EXCEPT !.seen_paths = collected.seen,
                             !.cur = [mode |-> mode, batches |-> batches,
                                      sent |-> 0, last_msg |-> None,
                                      rleft |-> <<>>]]
    IN IF batches # <<>> THEN [started EXCEPT !.pc = "send"]
       ELSE IF mode = "text" THEN end_message(started)
       ELSE after_batches(started)

\* the loop head without the cancellation check
poll_without_cancellation(r, flags) ==
    IF r.idx >= Len(r.sel) THEN [r EXCEPT !.pc = "finish"]
    ELSE begin_message(r)

(***************************************************************************)
(* import: the head of the for loop (cli.rs 586-591).  When the selection  *)
(* is exhausted the loop ends without a poll.                              *)
(***************************************************************************)
poll(r, flags) ==
    IF r.idx >= Len(r.sel) THEN [r EXCEPT !.pc = "finish"]
    ELSE IF is_cancelled(flags, r.channel)
    THEN [r EXCEPT !.cancelled = TRUE, !.pc = "finish"]
    ELSE begin_message(r)

ImportPoll(i) ==
    /\ imp[i].pc = "poll"
    /\ imp' = [imp EXCEPT ![i] = poll(imp[i], cancellation_flags)]
    /\ UNCHANGED <<cancellation_flags, json_files, cancel_log, failures,
                   sel_in, sel_out,
                   resolver, composer>>

\* a send of the next batch that lists the reaction users after every batch
send_batch_listing_between(r, ok) ==
    LET batch == Head(r.cur.batches)
        id == current_message(r).id
        sent == [r EXCEPT
                    !.log = Append(@, Entry("batch", "", id, ok, ok, batch,
                                       r.cur.sent + 1, <<>>))
                            \o (IF r.options.reaction_users
                                   /\ Len(r.cur.batches) > 1
                                THEN <<Entry("say", "Reactions", id, TRUE,
                                             TRUE, NoBatch, 0, <<>>)>>
                                ELSE <<>>),
                    !.cur.batches = Tail(@),
                    !.cur.sent = @ + 1,
                    !.cur.last_msg = IF ok THEN Some(r.cur.sent + 1) ELSE @]
    IN IF r.cur.mode = "text"
       THEN IF ok THEN after_edit(sent) ELSE end_message(sent)
       ELSE IF sent.cur.batches # <<>> THEN sent
       ELSE after_batches(sent)

\* a send of the next batch that gives the message up when it is rejected
send_batch_aborting(r, ok) ==
    LET batch == Head(r.cur.batches)
        sent == [r EXCEPT
                    !.log = Append(@, Entry("batch", "", current_message(r).id,
                                       ok, ok, batch, r.cur.sent + 1, <<>>)),
                    !.cur.batches = Tail(@),
                    !.cur.sent = @ + 1,
                    !.cur.last_msg = IF ok THEN Some(r.cur.sent + 1) ELSE @]
    IN IF ~ok THEN end_message(sent)
       ELSE IF r.cur.mode = "text" THEN after_edit(sent)
       ELSE IF sent.cur.batches # <<>> THEN sent
       ELSE after_batches(sent)

(***************************************************************************)
(* send_reply (cli.rs 177-181) of the next batch of the message.  In text  *)
(* mode a rejected send returns at once (cli.rs 276).                      *)
(***************************************************************************)
send_batch(r, ok) ==
    LET batch == Head(r.cur.batches)
        sent == [r EXCEPT
                    !.log = Append(@, Entry("batch", "", current_message(r).id,
                                       ok, ok, batch, r.cur.sent + 1, <<>>)),
                    !.cur.batches = Tail(@),
                    !.cur.sent = @ + 1,
                    !.cur.last_msg = IF ok THEN Some(r.cur.sent + 1) ELSE @]
    IN IF r.cur.mode = "text"
       THEN IF ok THEN after_edit(sent) ELSE end_message(sent)
       ELSE IF sent.cur.batches # <<>> THEN sent
       ELSE after_batches(sent)

ImportSend(i) ==
    /\ imp[i].pc = "send"
    /\ \E ok \in OkChoices :
          /\ imp' = [imp EXCEPT ![i] = send_batch(imp[i], ok)]
          /\ failures' = Count(ok)
    /\ UNCHANGED <<cancellation_flags, json_files, cancel_log, sel_in, sel_out,
                   resolver, composer>>

\* the edit of send_outside_message (cli.rs 409-418); its result is dropped
edit_buttons(r, ok) ==
    after_edit([r EXCEPT
        !.log = Append(@, Entry("edit", "", current_message(r).id, ok, FALSE,
                           NoBatch, r.cur.last_msg.v, <<>>))])

ImportEdit(i) ==
    /\ imp[i].pc = "edit"
    /\ \E ok \in OkChoices :
          /\ imp' = [imp EXCEPT ![i] = edit_buttons(imp[i], ok)]
          /\ failures' = Count(ok)
    /\ UNCHANGED <<cancellation_flags, json_files, cancel_log, sel_in, sel_out,
                   resolver, composer>>

\* the say of show_reaction_users (cli.rs 163-164); its result is dropped
say_listing(r, ok) ==
    LET sent == [r EXCEPT
                    !.log = Append(@, Entry("say", "Reactions",
                                       current_message(r).id, ok, TRUE,
                                       NoBatch, 0, <<>>))]
    IN after_listing(sent)

ImportListing(i) ==
    /\ imp[i].pc = "listing"
    /\ \E ok \in OkChoices :
          /\ imp' = [imp EXCEPT ![i] = say_listing(imp[i], ok)]
          /\ failures' = Count(ok)
    /\ UNCHANGED <<cancellation_flags, json_files, cancel_log, sel_in, sel_out,
                   resolver, composer>>

\* one turn of the loop of add_reactions (cli.rs 424-427)
react(r, ok) ==
    LET sent == [r EXCEPT
                    !.log = Append(@, Entry("react", Head(r.cur.rleft),
                                       current_message(r).id, ok, TRUE,
                                       NoBatch, r.cur.last_msg.v, <<>>)),
                    !.cur.rleft = Tail(@)]
    IN IF sent.cur.rleft # <<>> THEN sent ELSE end_message(sent)

ImportReact(i) ==
    /\ imp[i].pc = "react"
    /\ \E ok \in OkChoices :
          /\ imp' = [imp EXCEPT ![i] = react(imp[i], ok)]
          /\ failures' = Count(ok)
    /\ UNCHANGED <<cancellation_flags, json_files, cancel_log, sel_in, sel_out,
                   resolver, composer>>

(***************************************************************************)
(* import: after the loop (cli.rs 611-623).                                *)
(***************************************************************************)
ImportFinish(i) ==
    /\ imp[i].pc = "finish"
    /\ cancellation_flags' =
           remove_cancellation(cancellation_flags, imp[i].channel)
    /\ imp' = [imp EXCEPT ![i].pc = "notice"]
    /\ UNCHANGED <<json_files, cancel_log, failures, sel_in, sel_out,
                   resolver, composer>>

\* the final notice that always reports completion
final_notice_always_summary(r, ok) ==
    LET o == r.options
        done == build_completion_message(r.export, o.no_guild, o.no_category,
                                         o.no_channel)
    IN [r EXCEPT !.pc = "done",
                 !.log = Append(@, Notice(done.text, ok, 0, done.footer))]

final_notice(r, ok) ==
    LET o == r.options
        done == build_completion_message(r.export, o.no_guild, o.no_category,
                                         o.no_channel)
    IN [r EXCEPT
           !.pc = "done",
           !.log = Append(@, IF r.cancelled
                             THEN Notice("Import cancelled", ok, 0, <<>>)
                             ELSE Notice(done.text, ok, 0, done.footer))]

ImportNotice(i) ==
    /\ imp[i].pc = "notice"
    /\ \E ok \in OkChoices :
          /\ imp' = [imp EXCEPT ![i] = final_notice(imp[i], ok)]
          /\ failures' = Count(ok)
    /\ UNCHANGED <<cancellation_flags, json_files, cancel_log, sel_in, sel_out,
                   resolver, composer>>

\* cancel that sets the flag whether or not the channel has an entry
cancel_unconditional(flags, channel) ==
    [flags |-> flags_insert(flags, channel, TRUE),
     message |-> "Cancelling import..."]

\* cancel that leaves a set flag behind when the channel has no entry
cancel_creating_entry(flags, channel) ==
    [flags |-> flags_insert(flags, channel, TRUE),
     message |-> IF channel \in DOMAIN flags THEN "Cancelling import..."
                 ELSE "No ongoing import in this channel."]

(***************************************************************************)
(* cancel (cli.rs 626-649).                                                *)
(***************************************************************************)
cancel(flags, channel) ==
    IF channel \in DOMAIN flags
    THEN [flags |-> flags_insert(flags, channel, TRUE),
          message |-> "Cancelling import..."]
    ELSE [flags |-> flags,
          message |-> "No ongoing import in this channel."]

Cancel(channel) ==
    /\ Len(cancel_log) < MaxCancels
    /\ LET c == cancel(cancellation_flags, channel) IN
          /\ cancellation_flags' = c.flags
          /\ cancel_log' = Append(cancel_log,
                               [channel |-> channel, message |-> c.message])
    /\ UNCHANGED <<imp, json_files, failures, sel_in, sel_out,
                   resolver, composer>>

ImportIds == {1, 2}

Next ==
    \/ \E i \in ImportIds : ImportStart(i)
    \/ \E i \in ImportIds : ImportBegin(i)
    \/ \E i \in ImportIds : ImportPoll(i)
    \/ \E i \in ImportIds : ImportSend(i)
    \/ \E i \in ImportIds : ImportEdit(i)
    \/ \E i \in ImportIds : ImportListing(i)
    \/ \E i \in ImportIds : ImportReact(i)
    \/ \E i \in ImportIds : ImportFinish(i)
    \/ \E i \in ImportIds : ImportNotice(i)
    \/ \E channel \in Channels : Cancel(channel)

(***************************************************************************)
(* Inputs.  Three kinds of archived message: a text message with a mention *)
(* and a reaction whose author has a local avatar; an empty message        *)
(* without media; a message with image and non-image attachments and two   *)
(* reactions, whose first image exists on disk but does not load.          *)
(***************************************************************************)
AttA == Attachment("https://cdn/a.png", FileName("a", <<>>, "png", TRUE))
AttB == Attachment("https://cdn/b.png", FileName("b", <<>>, "png", FALSE))
AttC == Attachment("https://cdn/c.png", FileName("c", <<>>, "png", FALSE))
AttDoc == Attachment("https://cdn/doc.pdf", FileName("doc", <<>>, "pdf", FALSE))

MessageKind(kind, id) ==
    CASE kind = 1 ->
           MessageInfo(id, <<"hi", "@bob">>, "u1", <<>>,
                       <<Mention("42", "bob")>>,
                       <<Reaction("thumb", <<TRUE>>)>>)
      [] kind = 2 -> MessageInfo(id, <<>>, "u2", <<>>, <<>>, <<>>)
      [] kind = 3 ->
           MessageInfo(id, <<"look">>, "u2", <<AttB, AttA, AttC, AttDoc>>,
                       <<>>,
                       <<Reaction("heart", <<>>),
                         Reaction("star", <<FALSE, TRUE>>)>>)
Kinds == {1, 2, 3}

\* an export of n messages whose kinds rotate, starting at kind `first`
KindAt(first, k) == ((first + k - 2) % Cardinality(Kinds)) + 1
ExportOf(n, first) ==
    Export("guild", Some("category"), "general",
           [k \in 1..n |-> MessageKind(KindAt(first, k), k - 1)])
Exports == {ExportOf(n, first) : n \in 0..MaxMessages, first \in Kinds}

\* paths a command can name: document 1 exists, document 2 does not
JsonDoc == PathTok(1)
JsonMissing == PathTok(2)
MediaDir == PathTok(11)

\* the option lists of the commands of Spec
ArgLists ==
    {<<>>,
     <<FlagTok("--button")>>,
     <<FlagTok("--reaction-users")>>,
     <<FlagTok("--no-reactions"), FlagTok("--no-guild")>>,
     <<FlagTok("--outside")>>,
     <<FlagTok("--outside"), FlagTok("--button"), FlagTok("--reaction-users")>>,
     <<FlagTok("--outside"), FlagTok("--no-embed")>>,
     <<FlagTok("--outside"), FlagTok("--no-embed"), FlagTok("--button")>>,
     <<FlagTok("--no-embed")>>,
     <<FlagTok("--range"), PairTok(1, 2)>>,
     <<FlagTok("--range"), PairTok(2, 1)>>,
     <<FlagTok("--range"), PairTok(MaxMessages, MaxMessages)>>,
     <<FlagTok("--first"), NumTok(2)>>,
     <<FlagTok("--last"), NumTok(1)>>}

Commands ==
    {<<>>}
    \cup {<<json>> \o media \o args :
             json \in {JsonDoc, JsonMissing},
             media \in {<<>>, <<MediaDir>>},
             args \in ArgLists}

NoSelIn == [messages |-> <<>>, range_start |-> None, range_end |-> None,
            first |-> None, last |-> None]
NoSelOut == [done |-> FALSE, panic |-> FALSE, out |-> <<>>]
NoResolver == [index |-> NoIndex, seen_paths |-> {}, calls |-> <<>>]
NoComposer ==
    [tree |-> EmptyTree, image_sources |-> <<>>, author_avatar_file |-> NoAvatar,
     content |-> <<>>, buttons |-> FALSE, done |-> FALSE, batches |-> <<>>]

\* one import command in channel c1, cancel commands in any channel
Init ==
    /\ cancellation_flags = NoFlags
    /\ json_files \in {1 :> e : e \in Exports}
    /\ imp \in {(1 :> Idle("c1", tokens)) @@ (2 :> Off) : tokens \in Commands}
    /\ cancel_log = <<>>
    /\ failures = 0
    /\ sel_in = NoSelIn
    /\ sel_out = NoSelOut
    /\ resolver = NoResolver
    /\ composer = NoComposer

Spec == Init /\ [][Next]_vars

(***************************************************************************)
(* SpecRace: two import commands, in the same channel or in two, and       *)
(* cancel commands.                                                        *)
(***************************************************************************)
RaceCommands ==
    {<<JsonDoc>>,
     <<JsonDoc, FlagTok("--outside"), FlagTok("--button"),
       FlagTok("--reaction-users")>>}

InitRace ==
    /\ cancellation_flags = NoFlags
    /\ json_files = 1 :> ExportOf(2, 1)
    /\ imp \in {(1 :> Idle("c1", t1)) @@ (2 :> Idle(c2, t2)) :
                   t1 \in RaceCommands, t2 \in RaceCommands, c2 \in Channels}
    /\ cancel_log = <<>>
    /\ failures = 0
    /\ sel_in = NoSelIn
    /\ sel_out = NoSelOut
    /\ resolver = NoResolver
    /\ composer = NoComposer

SpecRace == InitRace /\ [][Next]_vars

(***************************************************************************)
(* SpecArgs: one import command over every option list of up to MaxArgs    *)
(* tokens, on an export of one message.                                    *)
(***************************************************************************)
Tokens ==
    {FlagTok(name) : name \in BoolFlags \cup ValueFlags \cup {"--bogus"}}
    \cup {NumTok(n) : n \in 0..MaxNum}
    \cup {PairTok(0, 1), PairTok(1, 0), PairTok(MaxNum, MaxNum)}
    \cup {BadStartPairTok, BadEndPairTok, WordTok}
TokenLists == UNION {[1..n -> Tokens] : n \in 0..MaxArgs}

InitArgs ==
    /\ cancellation_flags = NoFlags
    /\ json_files = 1 :> ExportOf(1, 1)
    /\ imp \in {(1 :> Idle("c1", <<JsonDoc>> \o args)) @@ (2 :> Off) :
                   args \in TokenLists}
    /\ cancel_log = <<>>
    /\ failures = 0
    /\ sel_in = NoSelIn
    /\ sel_out = NoSelOut
    /\ resolver = NoResolver
    /\ composer = NoComposer

SpecArgs == InitArgs /\ [][Next]_vars

(***************************************************************************)
(* One import that names a media root: a directory or an archive that is   *)
(* there, or a directory that is missing, an archive that is missing or    *)
(* cannot be extracted, or an archive URL that cannot be fetched or        *)
(* extracted.                                                              *)
(***************************************************************************)
FailedRoots == {12, 14, 15, 16, 17}
MediaArgLists ==
    {<<>>,
     <<FlagTok("--outside")>>,
     <<FlagTok("--outside"), FlagTok("--button"), FlagTok("--reaction-users")>>}

InitMedia ==
    /\ cancellation_flags = NoFlags
    /\ json_files \in {1 :> ExportOf(MaxMessages, first) : first \in Kinds}
    /\ imp \in {(1 :> Idle("c1", <<JsonDoc, PathTok(root)>> \o args))
                @@ (2 :> Off) :
                   root \in DOMAIN MediaRoots, args \in MediaArgLists}
    /\ cancel_log = <<>>
    /\ failures = 0
    /\ sel_in = NoSelIn
    /\ sel_out = NoSelOut
    /\ resolver = NoResolver
    /\ composer = NoComposer

SpecMedia == InitMedia /\ [][Next]_vars

(***************************************************************************)
(* SpecSelect: select_messages alone, on every list of up to MaxMessages   *)
(* messages and every combination of selector values up to MaxNum + 1.     *)
(***************************************************************************)
Selectors == {None} \cup {Some(v) : v \in 0..(MaxNum + 1)}

InitSelect ==
    /\ cancellation_flags = NoFlags
    /\ json_files = [x \in {} |-> NoExport]
    /\ imp = [i \in ImportIds |-> Off]
    /\ cancel_log = <<>>
    /\ failures = 0
    /\ sel_in \in {[messages |-> [k \in 1..n |-> k - 1], range_start |-> rs,
                    range_end |-> re, first |-> f, last |-> l] :
                      n \in 0..MaxMessages, rs \in Selectors,
                      re \in Selectors, f \in Selectors, l \in Selectors}
    /\ sel_out = NoSelOut
    /\ resolver = NoResolver
    /\ composer = NoComposer

SelectMessages ==
    /\ ~sel_out.done
    /\ LET r == select_messages(sel_in.messages, sel_in.range_start,
                                sel_in.range_end, sel_in.first, sel_in.last)
       IN sel_out' = [done |-> TRUE, panic |-> r.panic, out |-> r.out]
    /\ UNCHANGED <<cancellation_flags, imp, json_files, cancel_log, failures,
                   sel_in, resolver, composer>>

NextSelect == SelectMessages

SpecSelect == InitSelect /\ [][NextSelect]_vars

(***************************************************************************)
(* Bare runs of the resolver: one seen_paths set, empty at the start as in *)
(* import (cli.rs 583), and a sequence of find_local_files and             *)
(* collect_sources calls on it.  The media directory holds a.png with its  *)
(* numbered variants a_001.png .. a_00k.png, possibly one more variant     *)
(* after a gap, possibly a second a.png in another scanned directory, and  *)
(* b.png and doc.pdf.                                                      *)
(***************************************************************************)
VariantFile(i) ==
    FileName("a", IF i = 0 THEN <<>> ELSE <<i>>, "png", FALSE)
VariantTree(k, gap, dup) ==
    [dirs |-> {<<"avatars">>, <<"channels">>, ChatDir},
     walk |-> (IF dup THEN <<Path(AvatarDir, VariantFile(0))>> ELSE <<>>)
              \o [i \in 1..(k + 1) |-> Path(ChatDir, VariantFile(i - 1))]
              \o (IF gap THEN <<Path(ChatDir, VariantFile(k + 2))>> ELSE <<>>)
              \o <<BPng, DocPdf>>,
     unreadable |-> {}]
VariantIndex(k, gap, dup) ==
    [some |-> TRUE,
     paths |-> scan_files(VariantTree(k, gap, dup),
                   locate_media_dirs(VariantTree(k, gap, dup), "chat")),
     tree |-> VariantTree(k, gap, dup)]

AttA1 == Attachment("https://cdn/a_001.png", VariantFile(1))
AttZ == Attachment("https://cdn/z.png", FileName("z", <<>>, "png", FALSE))
ResolveNames ==
    {AttA.file_name, VariantFile(0), VariantFile(1), AttB.file_name,
     AttZ.file_name}
ResolveAttachments ==
    {<<AttA, AttA1>>, <<AttA1, AttA>>, <<AttA, AttA>>, <<AttDoc, AttB>>,
     <<AttZ>>}

Call(fn, attachments, images_only, before, out, after) ==
    [fn |-> fn, attachments |-> attachments, images_only |-> images_only,
     before |-> before, out |-> out, after |-> after]

InitResolve ==
    /\ cancellation_flags = NoFlags
    /\ json_files = [x \in {} |-> NoExport]
    /\ imp = [i \in ImportIds |-> Off]
    /\ cancel_log = <<>>
    /\ failures = 0
    /\ sel_in = NoSelIn
    /\ sel_out = NoSelOut
    /\ resolver \in
           {[index |-> index, seen_paths |-> {}, calls |-> <<>>] :
               index \in {NoIndex} \cup
                   {VariantIndex(k, gap, dup) :
                       k \in 0..MaxVariants, gap \in BOOLEAN, dup \in BOOLEAN}}
    /\ composer = NoComposer

\* one call of find_local_files, which collect_sources makes only when
\* there is an index
FindLocalFiles(filename) ==
    /\ Len(resolver.calls) < MaxCalls
    /\ resolver.index.some
    /\ LET r == find_local_files(filename, resolver.index,
                                 resolver.seen_paths)
       IN resolver' =
              [resolver EXCEPT
                  !.seen_paths = r.seen,
                  !.calls = Append(@,
                      Call("find_local_files",
                           <<Attachment("", filename)>>, FALSE,
                           resolver.seen_paths, r.found, r.seen))]
    /\ UNCHANGED <<cancellation_flags, imp, json_files, cancel_log, failures,
                   sel_in, sel_out, composer>>

\* one call of collect_sources with the filter of the mode
CollectSources(attachments, images_only) ==
    /\ Len(resolver.calls) < MaxCalls
    /\ LET message == MessageInfo(0, <<>>, "u1", attachments, <<>>, <<>>)
           r == collect_sources(message, resolver.index,
                                resolver.seen_paths, images_only)
       IN resolver' =
              [resolver EXCEPT
                  !.seen_paths = r.seen,
                  !.calls = Append(@,
                      Call("collect_sources", attachments, images_only,
                           resolver.seen_paths, r.sources, r.seen))]
    /\ UNCHANGED <<cancellation_flags, imp, json_files, cancel_log, failures,
                   sel_in, sel_out, composer>>

NextResolve ==
    \/ \E filename \in ResolveNames : FindLocalFiles(filename)
    \/ \E attachments \in ResolveAttachments :
           \E images_only \in BOOLEAN :
               CollectSources(attachments, images_only)

SpecResolve == InitResolve /\ [][NextResolve]_vars

(***************************************************************************)
(* SpecLocate: locate_media_dirs and scan_files alone, as                  *)
(* create_file_index calls them on a media directory, over every set of    *)
(* directories under the root, each with one file, and two export names.   *)
(***************************************************************************)
LocateDirs ==
    {<<"avatars">>, <<"emojis">>, <<"icons">>, <<"channels">>,
     <<"channels", "chat">>, <<"other">>}
LocateFile(d) == Path(d, FileName("f", <<>>, "png", FALSE))
LocateTree(dirs) ==
    [dirs |-> dirs,
     walk |-> <<LocateFile(<<>>)>>
              \o SelectSeq(<<LocateFile(<<"avatars">>),
                             LocateFile(<<"channels">>),
                             LocateFile(<<"channels", "chat">>),
                             LocateFile(<<"emojis">>),
                             LocateFile(<<"icons">>),
                             LocateFile(<<"other">>)>>,
                           LAMBDA p : p.dir \in dirs),
     unreadable |-> {}]

InitLocate ==
    /\ cancellation_flags = NoFlags
    /\ json_files = [x \in {} |-> NoExport]
    /\ imp = [i \in ImportIds |-> Off]
    /\ cancel_log = <<>>
    /\ failures = 0
    /\ sel_in = NoSelIn
    /\ sel_out = NoSelOut
    /\ composer = NoComposer
    /\ resolver \in
           {[tree |-> LocateTree(dirs), export_name |-> export_name,
             done |-> FALSE, search_paths |-> <<>>, index |-> <<>>] :
               dirs \in {ds \in SUBSET LocateDirs :
                            <<"channels", "chat">> \in ds
                                => <<"channels">> \in ds},
               export_name \in {"chat", "gone"}}

\* create_file_index on a directory (utils.rs 166-168)
LocateMediaDirs ==
    /\ ~resolver.done
    /\ resolver' =
           [resolver EXCEPT
               !.done = TRUE,
               !.search_paths =
                   locate_media_dirs(resolver.tree, resolver.export_name),
               !.index =
                   scan_files(resolver.tree,
                       locate_media_dirs(resolver.tree, resolver.export_name))]
    /\ UNCHANGED <<cancellation_flags, imp, json_files, cancel_log, failures,
                   sel_in, sel_out, composer>>

NextLocate == LocateMediaDirs

SpecLocate == InitLocate /\ [][NextLocate]_vars

(***************************************************************************)
(* serde_json::Value as ReactionInfo.count holds it (models.rs 75): a      *)
(* number is a non-negative integer (PosInt), a negative integer (NegInt)  *)
(* or a float; a count the document leaves out is Value::default(), Null.  *)
(***************************************************************************)
JsonNumber(n, v) == [t |-> "Number", n |-> n, v |-> v]
JsonOther(t) == [t |-> t, n |-> "", v |-> 0]
JsonCounts ==
    {JsonNumber("PosInt", v) : v \in 0..MaxCount}
    \cup {JsonNumber("NegInt", -v) : v \in 1..MaxCount}
    \cup {JsonNumber("Float", v) : v \in (-MaxCount)..MaxCount}
    \cup {JsonOther(t) : t \in {"Null", "Bool", "String", "Array", "Object"}}

\* Number::as_u64
as_u64(number) == IF number.n = "PosInt" THEN Some(number.v) ELSE None

\* get_reaction_count that takes the value of any number
get_reaction_count_of_any_number(count) ==
    IF count.t = "Number" THEN count.v ELSE 1

\* get_reaction_count (utils.rs 340-345)
get_reaction_count(count) ==
    IF count.t = "Number"
    THEN IF as_u64(count).some THEN as_u64(count).v ELSE 1
    ELSE 1

(***************************************************************************)
(* SpecButtons: the counts create_buttons (utils.rs 395-415) puts on the   *)
(* labels of the buttons of up to two reactions.                           *)
(***************************************************************************)
InitButtons ==
    /\ cancellation_flags = NoFlags
    /\ json_files = [x \in {} |-> NoExport]
    /\ imp = [i \in ImportIds |-> Off]
    /\ cancel_log = <<>>
    /\ failures = 0
    /\ sel_in = NoSelIn
    /\ sel_out = NoSelOut
    /\ resolver = NoResolver
    /\ composer \in
           {[counts |-> counts, done |-> FALSE, labels |-> <<>>] :
               counts \in UNION {[1..n -> JsonCounts] : n \in 0..2}}

CreateButtons ==
    /\ ~composer.done
    /\ composer' =
           [composer EXCEPT
               !.done = TRUE,
               !.labels = [k \in DOMAIN composer.counts |->
                              get_reaction_count(composer.counts[k])]]
    /\ UNCHANGED <<cancellation_flags, imp, json_files, cancel_log, failures,
                   sel_in, sel_out, resolver>>

SpecButtons == InitButtons /\ [][CreateButtons]_vars

(***************************************************************************)
(* Bare calls of send_image_messages.  The image sources are n sources     *)
(* whose kinds repeat a pattern: a local file that loads, a local file     *)
(* that exists but does not load, or a remote URL.  The author has no      *)
(* avatar file, one that loads, or one that does not load.                 *)
(***************************************************************************)
SourceKinds == {"loads", "unreadable", "remote"}
ImagePath(k) == Path(ChatDir, FileName("img", <<k>>, "png", FALSE))
ImageSource(kind, k) ==
    IF kind = "remote" THEN Remote("https://cdn/img.png")
    ELSE Local(ImagePath(k), ImagePath(k).file)
ImageSources(n, pattern) ==
    [k \in 1..n |-> ImageSource(pattern[k % MaxPeriod], k)]
ImageTree(n, pattern, avatar) ==
    [dirs |-> {<<"avatars">>, <<"channels">>, ChatDir},
     walk |-> <<Avatar1>> \o [k \in 1..n |-> ImagePath(k)],
     unreadable |->
         {ImagePath(k) : k \in {j \in 1..n : pattern[j % MaxPeriod] = "unreadable"}}
         \cup (IF avatar = "unreadable" THEN {Avatar1} ELSE {})]

InitCompose ==
    /\ cancellation_flags = NoFlags
    /\ json_files = [x \in {} |-> NoExport]
    /\ imp = [i \in ImportIds |-> Off]
    /\ cancel_log = <<>>
    /\ failures = 0
    /\ sel_in = NoSelIn
    /\ sel_out = NoSelOut
    /\ resolver = NoResolver
    /\ composer \in
           {[tree |-> ImageTree(n, pattern, avatar),
             image_sources |-> ImageSources(n, pattern),
             author_avatar_file |->
                 IF avatar = "none" THEN NoAvatar
                 ELSE [some |-> TRUE, path |-> Avatar1],
             content |-> <<"look">>,
             buttons |-> with_reaction_buttons(button, reactions),
             done |-> FALSE,
             batches |-> <<>>] :
               n \in 1..MaxImages,
               pattern \in [0..(MaxPeriod - 1) -> SourceKinds],
               avatar \in {"none", "loads", "unreadable"},
               button \in BOOLEAN,
               reactions \in {<<>>, <<Reaction("thumbs", <<TRUE>>)>>}}

\* send_image_messages on a non-empty source list (cli.rs 508-524)
SendImageMessages ==
    /\ ~composer.done
    /\ composer' =
           [composer EXCEPT
               !.done = TRUE,
               !.batches =
                   image_batches(composer.tree, composer.image_sources,
                       Embed(TRUE, <<>>, <<>>, NoSource),
                       composer.author_avatar_file, TRUE, composer.content,
                       composer.buttons)]
    /\ UNCHANGED <<cancellation_flags, imp, json_files, cancel_log, failures,
                   sel_in, sel_out, resolver>>

NextCompose == SendImageMessages

SpecCompose == InitCompose /\ [][NextCompose]_vars

(***************************************************************************)
(* SpecLoop: the while loop of send_image_messages (cli.rs 297-323) one    *)
(* round at a time, on source lists of up to MaxLoopImages sources.  A     *)
(* round that is enabled is taken: the loop body awaits nothing that can   *)
(* block for ever.                                                         *)
(***************************************************************************)
\* one round of the loop that goes on when the round processed nothing
loop_round_without_break(c) ==
    LET batch == prepare_batch(c.tree, c.remaining_images,
                     Embed(TRUE, <<>>, <<>>, NoSource), c.author_avatar_file,
                     c.is_first_batch, c.content)
        remaining == SubSeq(c.remaining_images, batch.count + 1,
                            Len(c.remaining_images))
    IN [c EXCEPT !.remaining_images = remaining,
                 !.is_first_batch = FALSE,
                 !.done = remaining = <<>>]

loop_round(c) ==
    LET batch == prepare_batch(c.tree, c.remaining_images,
                     Embed(TRUE, <<>>, <<>>, NoSource), c.author_avatar_file,
                     c.is_first_batch, c.content)
        sent == IF batch.embeds # <<>>
                THEN <<Batch("image", batch.embeds, batch.attachments, <<>>,
                             Len(c.remaining_images) <= batch.count
                                 /\ c.buttons,
                             batch.count)>>
                ELSE <<>>
        remaining == SubSeq(c.remaining_images, batch.count + 1,
                            Len(c.remaining_images))
    IN IF batch.count = 0
       THEN [c EXCEPT !.batches = @ \o sent, !.done = TRUE]
       ELSE [c EXCEPT !.batches = @ \o sent,
                      !.remaining_images = remaining,
                      !.is_first_batch = FALSE,
                      !.done = remaining = <<>>]

InitLoop ==
    /\ cancellation_flags = NoFlags
    /\ json_files = [x \in {} |-> NoExport]
    /\ imp = [i \in ImportIds |-> Off]
    /\ cancel_log = <<>>
    /\ failures = 0
    /\ sel_in = NoSelIn
    /\ sel_out = NoSelOut
    /\ resolver = NoResolver
    /\ composer \in
           {[tree |-> ImageTree(n, pattern, avatar),
             image_sources |-> ImageSources(n, pattern),
             remaining_images |-> ImageSources(n, pattern),
             is_first_batch |-> TRUE,
             author_avatar_file |->
                 IF avatar = "none" THEN NoAvatar
                 ELSE [some |-> TRUE, path |-> Avatar1],
             content |-> <<"look">>,
             buttons |-> FALSE,
             done |-> FALSE,
             batches |-> <<>>] :
               n \in 1..MaxLoopImages,
               pattern \in [0..(MaxPeriod - 1) -> SourceKinds],
               avatar \in {"none", "loads"}}

LoopRound ==
    /\ ~composer.done
    /\ composer' = loop_round(composer)
    /\ UNCHANGED <<cancellation_flags, imp, json_files, cancel_log, failures,
                   sel_in, sel_out, resolver>>

SpecLoop == InitLoop /\ [][LoopRound]_vars /\ WF_vars(LoopRound)

(***************************************************************************)
(* SpecOutside: send_outside_message alone, on every list of up to         *)
(* MaxImages sources whose kinds repeat with period MaxPeriod, with and    *)
(* without body text, embed and avatar.                                    *)
(***************************************************************************)
InitOutside ==
    /\ cancellation_flags = NoFlags
    /\ json_files = [x \in {} |-> NoExport]
    /\ imp = [i \in ImportIds |-> Off]
    /\ cancel_log = <<>>
    /\ failures = 0
    /\ sel_in = NoSelIn
    /\ sel_out = NoSelOut
    /\ resolver = NoResolver
    /\ composer \in
           {[tree |-> ImageTree(n, pattern, avatar),
             image_sources |-> ImageSources(n, pattern),
             author_avatar_file |->
                 IF avatar = "none" \/ ~has_embed THEN NoAvatar
                 ELSE [some |-> TRUE, path |-> Avatar1],
             has_embed |-> has_embed,
             content |-> body,
             buttons |-> with_reaction_buttons(button, reactions),
             done |-> FALSE,
             batches |-> <<>>] :
               n \in 0..MaxImages,
               pattern \in [0..(MaxPeriod - 1) -> SourceKinds],
               avatar \in {"none", "loads", "unreadable"},
               has_embed \in BOOLEAN,
               body \in {<<>>, <<"look">>},
               button \in BOOLEAN,
               reactions \in {<<>>, <<Reaction("thumbs", <<TRUE>>)>>}}

\* send_outside_message (cli.rs 343-421), up to its last batch
SendOutsideMessage ==
    /\ ~composer.done
    /\ composer' =
           [composer EXCEPT
               !.done = TRUE,
               !.batches =
                   outside_batches(composer.tree, composer.image_sources,
                       Embed(TRUE, <<>>, <<>>, NoSource), composer.has_embed,
                       composer.author_avatar_file, composer.content,
                       composer.buttons)]
    /\ UNCHANGED <<cancellation_flags, imp, json_files, cancel_log, failures,
                   sel_in, sel_out, resolver>>

NextOutside == SendOutsideMessage

SpecOutside == InitOutside /\ [][NextOutside]_vars

(***************************************************************************)
(* Vocabulary of the properties.                                           *)
(***************************************************************************)
\* positions of an import inside process_message, and inside the for loop
InMessage == {"send", "edit", "listing", "react"}
InLoop == InMessage \cup {"poll"}
Issued(i) == imp[i].pc # "off"

Last(s) == s[Len(s)]
CancelNotice(e) == e.op = "say" /\ e.msg = -1 /\ e.text = "Import cancelled"
SuccessNotice(e) ==
    e.op = "say" /\ e.msg = -1 /\ e.text = "Successfully imported"
\* the entries of a log that belong to a message
MessageEntries(log) == {a \in DOMAIN log : log[a].msg >= 0}
\* the ids of the first n selected messages
SelectedIds(r, n) == {r.sel[k].id : k \in 1..Min(n, Len(r.sel))}
Acknowledged(channel) ==
    \E a \in DOMAIN cancel_log :
        /\ cancel_log[a].channel = channel
        /\ cancel_log[a].message = "Cancelling import..."

(***************************************************************************)
(* C1.  When the flag of the channel is true while the import stands at    *)
(* the head of the loop with messages 0..k done and message k+1 next, the  *)
(* flag stays true until the import polls; the poll sends nothing, keeps   *)
(* the count of processed messages at k+1 and records the cancelled        *)
(* outcome; from then on the only thing the import sends is the notice     *)
(* "Import cancelled".  At every moment the log holds sends of processed   *)
(* messages only, so nothing is ever sent for a message after k.           *)
(***************************************************************************)
C1_LogOfProcessed ==
    \A i \in ImportIds :
        LET r == imp[i] IN
        (Issued(i) /\ r.pc \notin InMessage) =>
            \A a \in MessageEntries(r.log) :
                r.log[a].msg \in SelectedIds(r, r.idx)

C1_Step(i) ==
    LET r == imp[i]
        q == imp'[i]
    IN /\ (r.pc = "poll" /\ r.idx < Len(r.sel)
           /\ is_cancelled(cancellation_flags, r.channel)) =>
              /\ is_cancelled(cancellation_flags', r.channel)
              /\ q # r => /\ q.pc = "finish"
                          /\ q.cancelled
                          /\ q.idx = r.idx
                          /\ q.log = r.log
       /\ (r.cancelled /\ r.pc \in {"finish", "notice"}) =>
              /\ q.cancelled
              /\ q.idx = r.idx
              /\ q.pc \in {"finish", "notice", "done"}
              /\ \/ q.log = r.log /\ q.pc # "done"
                 \/ /\ r.pc = "notice" /\ q.pc = "done"
                    /\ Len(q.log) = Len(r.log) + 1
                    /\ SubSeq(q.log, 1, Len(r.log)) = r.log
                    /\ CancelNotice(Last(q.log))
       /\ (r.cancelled /\ r.pc = "done") => q = r

C1_CancelBetweenMessages ==
    /\ []C1_LogOfProcessed
    /\ [][\A i \in ImportIds : C1_Step(i)]_vars

\* the import was cancelled with message k processed in the very step that
\* polled for it (it has no sends), so the flag rose between k and k+1
C1_Witness ==
    LET r == imp[1] IN
    /\ r.pc = "done" /\ r.cancelled
    /\ r.idx >= 2 /\ r.idx < Len(r.sel)
    /\ r.sel[r.idx].content = <<>> /\ r.sel[r.idx].attachments = <<>>
    /\ \E a \in MessageEntries(r.log) : r.log[a].msg = r.sel[1].id
    /\ CancelNotice(Last(r.log))
    /\ Acknowledged(r.channel)

(***************************************************************************)
(* C2.  While the flag of its channel is true, a single import starts no   *)
(* message: at the head of the loop it can only leave the loop, and inside *)
(* a message it can only finish that message; the flag stays true until    *)
(* the import has left the loop.                                           *)
(***************************************************************************)
C2_Step(i) ==
    LET r == imp[i]
        q == imp'[i]
    IN (Issued(i) /\ r.pc \in InLoop
        /\ is_cancelled(cancellation_flags, r.channel)) =>
           /\ q.pc \in InLoop => is_cancelled(cancellation_flags', r.channel)
           /\ r.pc = "poll" => /\ q.pc \in {"poll", "finish"}
                               /\ q.idx = r.idx
                               /\ q.cur = r.cur
           /\ r.pc \in InMessage =>
                  \/ q.pc \in InMessage /\ q.idx = r.idx
                  \/ q.pc = "poll" /\ q.idx = r.idx + 1

C2_NoMessageStartsOnceSet == [][\A i \in ImportIds : C2_Step(i)]_vars

\* the flag is true while a message is in flight and another one waits
C2_Witness ==
    LET r == imp[1] IN
    /\ r.pc \in InMessage
    /\ r.idx + 1 < Len(r.sel)
    /\ is_cancelled(cancellation_flags, r.channel)

(***************************************************************************)
(* C3.  Imports of one channel share the channel's flag entry.  When an    *)
(* import leaves its loop it removes the entry even though another import  *)
(* of the same channel is still in its loop; a cancel command that finds   *)
(* no entry changes nothing and answers that no import is ongoing, so the  *)
(* import still running polls false; and the entry stays absent as long as *)
(* no import of the channel is about to reset it.                          *)
(***************************************************************************)
C3_Step ==
    /\ \A i \in ImportIds :
           (imp[i].pc = "finish" /\ imp'[i].pc = "notice") =>
               imp[i].channel \notin DOMAIN cancellation_flags'
    /\ Len(cancel_log') > Len(cancel_log) =>
           LET reply == Last(cancel_log') IN
           IF reply.channel \in DOMAIN cancellation_flags
           THEN /\ reply.message = "Cancelling import..."
                /\ is_cancelled(cancellation_flags', reply.channel)
           ELSE /\ reply.message = "No ongoing import in this channel."
                /\ cancellation_flags' = cancellation_flags
                /\ ~is_cancelled(cancellation_flags', reply.channel)
    /\ \A c \in Channels :
           (/\ c \notin DOMAIN cancellation_flags
            /\ \A i \in ImportIds :
                   imp[i].channel = c => imp[i].pc # "begin") =>
               c \notin DOMAIN cancellation_flags'

C3_SharedEntryRace == [][C3_Step]_vars

\* both imports were in their loops in channel c1 when a cancel command was
\* acknowledged; the first import has ended as cancelled and removed the
\* entry; the second is still inside a message, was not cancelled, and a
\* later cancel command was told that no import is ongoing
C3_Witness ==
    /\ imp[1].channel = imp[2].channel
    /\ imp[1].pc = "done" /\ imp[1].cancelled
    /\ imp[2].pc \in InMessage /\ ~imp[2].cancelled
    /\ imp[2].channel \notin DOMAIN cancellation_flags
    /\ Len(cancel_log) = 2
    /\ cancel_log[1] = [channel |-> imp[2].channel,
                        message |-> "Cancelling import..."]
    /\ cancel_log[2] = [channel |-> imp[2].channel,
                        message |-> "No ongoing import in this channel."]

(***************************************************************************)
(* C4.  With one import in the channel, the channel has a flag entry       *)
(* exactly from the reset before the first message until the loop has      *)
(* ended: none before the import enters the loop, one while it is in the   *)
(* loop (false until a cancel command is acknowledged), and none once the  *)
(* final notice is due or sent, however the loop ended.                    *)
(***************************************************************************)
C4_EntryLifetime ==
    LET r == imp[1] IN
    /\ r.pc \in {"idle", "begin", "notice", "done", "panic"} =>
           r.channel \notin DOMAIN cancellation_flags
    /\ r.pc \in InLoop \cup {"finish"} =>
           /\ r.channel \in DOMAIN cancellation_flags
           /\ ~Acknowledged(r.channel) => ~cancellation_flags[r.channel]
    /\ (r.pc \in InMessage \/ r.idx > 0) =>
           \E a \in DOMAIN r.log : r.log[a].text = "Importing messages"

\* the import ended by cancellation after its final notice, with a message
\* processed, and the entry is gone
C4_Witness ==
    LET r == imp[1] IN
    /\ r.pc = "done" /\ r.cancelled /\ r.idx > 0
    /\ CancelNotice(Last(r.log))
    /\ r.channel \notin DOMAIN cancellation_flags

(***************************************************************************)
(* C5.  The sends of one import are those of its selected messages in      *)
(* export order, one message at a time: the log never returns to an        *)
(* earlier message, a send of the message at position p exists only when   *)
(* the p - 1 messages before it have been completed, and within a message  *)
(* the batches (numbered 1, 2, ...) come first, then the button edit, then *)
(* the reaction listing, then the native reactions, so that no message is  *)
(* processed twice.                                                        *)
(***************************************************************************)
Rank(e) ==
    CASE e.op = "batch" -> 1
      [] e.op = "edit" -> 2
      [] e.op = "say" -> 3
      [] e.op = "react" -> 4

C5_OneMessageAtATime ==
    \A i \in ImportIds :
        LET r == imp[i]
            started == IF r.pc \in InMessage THEN r.idx + 1 ELSE r.idx
        IN Issued(i) =>
           /\ \A a \in MessageEntries(r.log) :
                  r.log[a].msg \in SelectedIds(r, started)
           /\ \A a, b \in MessageEntries(r.log) :
                  a < b =>
                      /\ r.log[a].msg <= r.log[b].msg
                      /\ r.log[a].msg = r.log[b].msg =>
                             /\ Rank(r.log[a]) <= Rank(r.log[b])
                             /\ (r.log[a].op = "batch" /\ r.log[b].op = "batch")
                                    => r.log[a].n < r.log[b].n
                             /\ (r.log[a].op = "say" /\ r.log[b].op = "say")
                                    => FALSE
           /\ \A k \in 1..Len(r.sel) :
                  Cardinality({a \in MessageEntries(r.log) :
                                  r.log[a].msg = r.sel[k].id
                                  /\ r.log[a].op = "react"})
                      <= Len(r.sel[k].reactions)

\* three messages were replayed and the first and the last both have sends
C5_Witness ==
    LET r == imp[1] IN
    /\ r.pc = "done" /\ r.idx = 3
    /\ \E a, b, c \in MessageEntries(r.log) :
           /\ a < b /\ b < c
           /\ r.log[a].msg = r.sel[1].id /\ r.log[a].op = "batch"
           /\ r.log[b].msg = r.sel[1].id /\ r.log[b].op = "react"
           /\ r.log[c].msg = r.sel[3].id /\ r.log[c].op = "batch"

(***************************************************************************)
(* Vocabulary of the selection claims.                                     *)
(***************************************************************************)
FirstOf(messages, n) == SubSeq(messages, 1, Min(n, Len(messages)))
LastOf(messages, n) ==
    SubSeq(messages, Len(messages) - Min(n, Len(messages)) + 1, Len(messages))
RangeGiven == sel_in.range_start.some /\ sel_in.range_end.some
RangeValid ==
    /\ sel_in.range_start.v <= sel_in.range_end.v
    /\ sel_in.range_start.v < Len(sel_in.messages)

(***************************************************************************)
(* C6.  An invalid selector falls through to the next one: an invalid      *)
(* range given with first-N (N > 0) yields the first min(N, len) messages, *)
(* and first-0 given with last-N (N > 0) yields the last min(N, len).      *)
(***************************************************************************)
C6_InvalidFallsThrough ==
    sel_out.done =>
        /\ (RangeGiven /\ ~RangeValid
            /\ sel_in.first.some /\ sel_in.first.v > 0) =>
               sel_out.out = FirstOf(sel_in.messages, sel_in.first.v)
        /\ (~RangeGiven /\ sel_in.first = Some(0)
            /\ sel_in.last.some /\ sel_in.last.v > 0) =>
               sel_out.out = LastOf(sel_in.messages, sel_in.last.v)

(***************************************************************************)
(* C7.  A range [s, e] with s <= e and s < len selects exactly the         *)
(* messages at the indices s .. min(e, len - 1), in order, whatever        *)
(* first-N and last-N are.                                                 *)
(***************************************************************************)
C7_ValidRangeWins ==
    (sel_out.done /\ RangeGiven /\ RangeValid) =>
        /\ ~sel_out.panic
        /\ sel_out.out =
               SubSeq(sel_in.messages, sel_in.range_start.v + 1,
                      Min(sel_in.range_end.v, Len(sel_in.messages) - 1) + 1)

\* a range whose end lies beyond the last index, with first-N and last-N
\* both given, selected everything from index 1 on
C7_Witness ==
    /\ sel_out.done /\ RangeGiven
    /\ sel_in.range_start.v = 1
    /\ sel_in.range_end.v >= Len(sel_in.messages)
    /\ sel_in.first.some /\ sel_in.first.v > 0
    /\ sel_in.last.some /\ sel_in.last.v > 0
    /\ Len(sel_in.messages) >= 3
    /\ sel_out.out = SubSeq(sel_in.messages, 2, Len(sel_in.messages))

(***************************************************************************)
(* C8.  Without a range, first-N (N > 0) selects the first min(N, len)     *)
(* messages whether or not last-N is given; without range and first-N,     *)
(* last-N (N > 0) selects the last min(N, len); without any selector the   *)
(* whole list is selected.                                                 *)
(***************************************************************************)
C8_FirstThenLastThenAll ==
    (sel_out.done /\ ~RangeGiven) =>
        /\ ~sel_out.panic
        /\ (sel_in.first.some /\ sel_in.first.v > 0) =>
               sel_out.out = FirstOf(sel_in.messages, sel_in.first.v)
        /\ (~sel_in.first.some /\ sel_in.last.some /\ sel_in.last.v > 0) =>
               sel_out.out = LastOf(sel_in.messages, sel_in.last.v)
        /\ (~sel_in.first.some /\ ~sel_in.last.some) =>
               sel_out.out = sel_in.messages

\* first-2 and last-1 of three messages selected the first two
C8_Witness ==
    /\ sel_out.done
    /\ ~sel_in.range_start.some /\ ~sel_in.range_end.some
    /\ sel_in.first = Some(2) /\ sel_in.last = Some(1)
    /\ Len(sel_in.messages) = 3
    /\ sel_out.out = SubSeq(sel_in.messages, 1, 2)

(***************************************************************************)
(* C9.  An import whose options carry a range with start > end, or with a  *)
(* start beyond the last message index of the export, ends with a single   *)
(* error notice and no send for any message.                               *)
(***************************************************************************)
OptionTokens(r) ==
    IF r.tokens = <<>> THEN <<>>
    ELSE SubSeq(r.tokens,
                IF Len(r.tokens) > 1 /\ ~StartsWithDashes(r.tokens[2])
                THEN 3 ELSE 2,
                Len(r.tokens))

InvalidRange(r) ==
    LET parsed == parse_options(OptionTokens(r))
        loaded == load_export(json_files, r.tokens[1])
    IN /\ r.tokens # <<>>
       /\ parsed.ok /\ loaded.ok
       /\ parsed.options.range_start.some /\ parsed.options.range_end.some
       /\ \/ parsed.options.range_start.v > parsed.options.range_end.v
          \/ parsed.options.range_start.v >= Len(loaded.export.messages)

C9_InvalidRangeAborts ==
    \A i \in ImportIds :
        LET r == imp[i] IN
        (Issued(i) /\ r.pc # "idle" /\ InvalidRange(r)) =>
            /\ MessageEntries(r.log) = {}
            /\ r.pc = "done"
            /\ Len(r.log) = 1
            /\ r.log[1].text \notin {"Importing messages"}
            /\ r.channel \notin DOMAIN cancellation_flags

(***************************************************************************)
(* C10.  Whenever the option tokens contain --no-reactions together with   *)
(* --button, or --disable-button without --button, or --no-embed without   *)
(* --outside, whatever else they contain, parse_options returns an error   *)
(* and the import ends with the one notice of that error: no message is    *)
(* replayed and the channel gets no flag entry.                            *)
(***************************************************************************)
HasFlag(tokens, name) == \E k \in DOMAIN tokens : tokens[k].t = name

BadCombination(tokens) ==
    \/ HasFlag(tokens, "--no-reactions") /\ HasFlag(tokens, "--button")
    \/ HasFlag(tokens, "--disable-button") /\ ~HasFlag(tokens, "--button")
    \/ HasFlag(tokens, "--no-embed") /\ ~HasFlag(tokens, "--outside")

C10_BadCombinationRejected ==
    \A i \in ImportIds :
        LET r == imp[i] IN
        (Issued(i) /\ BadCombination(OptionTokens(r))) =>
            /\ ~parse_options(OptionTokens(r)).ok
            /\ r.pc \in {"idle", "done"}
            /\ r.channel \notin DOMAIN cancellation_flags
            /\ r.pc = "idle" => r.log = <<>>
            /\ r.pc = "done" =>
                   /\ Len(r.log) = 1
                   /\ r.log[1].text = "Error parsing options"
                   /\ MessageEntries(r.log) = {}

\* --no-embed, given with another option but without --outside, was rejected
C10_Witness ==
    LET r == imp[1] IN
    /\ r.pc = "done"
    /\ Len(OptionTokens(r)) >= 2
    /\ HasFlag(OptionTokens(r), "--no-embed")
    /\ HasFlag(OptionTokens(r), "--no-guild")
    /\ r.log[1].text = "Error parsing options"

(***************************************************************************)
(* Vocabulary of the resolver claims.                                      *)
(***************************************************************************)
LocalPaths(out) ==
    {out[a].path : a \in {b \in DOMAIN out : out[b].k = "Local"}}
Candidates(index, filename) ==
    SelectSeq(index.paths,
              LAMBDA p : to_ascii_lowercase(p.file) = to_ascii_lowercase(filename))
Numbered(path, i) ==
    Path(path.dir, FileName(path.file.base, path.file.sfx \o <<i>>,
                            path.file.ext, path.file.upper))
\* the number of numbered variants of path on disk before the first gap
VariantRun(tree, path) ==
    CHOOSE k \in 0..(MaxVariants + 2) :
        /\ \A i \in 1..k : Numbered(path, i) \in SeqToSet(tree.walk)
        /\ Numbered(path, k + 1) \notin SeqToSet(tree.walk)

(***************************************************************************)
(* C11.  In one run no local path is handed out twice: every path a call   *)
(* returns in a Local source was not in seen_paths before the call and is  *)
(* in it afterwards, no path is in two Local sources of the run, and       *)
(* seen_paths starts empty, changes only by the calls and never loses an   *)
(* element.                                                                *)
(***************************************************************************)
C11_ClaimedOnce ==
    LET calls == resolver.calls IN
    /\ resolver.seen_paths =
           IF calls = <<>> THEN {} ELSE calls[Len(calls)].after
    /\ \A c \in DOMAIN calls :
           /\ calls[c].before = IF c = 1 THEN {} ELSE calls[c - 1].after
           /\ calls[c].before \subseteq calls[c].after
           /\ LocalPaths(calls[c].out) \cap calls[c].before = {}
           /\ LocalPaths(calls[c].out) \subseteq calls[c].after
           /\ \A a, b \in DOMAIN calls[c].out :
                  (a # b /\ calls[c].out[a].k = "Local"
                   /\ calls[c].out[b].k = "Local") =>
                      calls[c].out[a].path # calls[c].out[b].path
    /\ \A c, d \in DOMAIN calls :
           c < d => LocalPaths(calls[c].out) \cap LocalPaths(calls[d].out) = {}

\* a message that names a.png twice got the file and its variants once and
\* the URL for the second reference, and a later resolution of a_001.png
\* found that file claimed
C11_Witness ==
    LET calls == resolver.calls IN
    /\ Len(calls) = 2
    /\ calls[1].fn = "collect_sources"
    /\ calls[1].attachments = <<AttA, AttA>>
    /\ Cardinality(LocalPaths(calls[1].out)) >= 2
    /\ calls[1].out[Len(calls[1].out)] = Remote(AttA.url)
    /\ calls[2].fn = "find_local_files"
    /\ calls[2].attachments[1].file_name = VariantFile(1)
    /\ calls[2].out = <<>>
    /\ Path(ChatDir, VariantFile(1)) \in calls[2].before

SourceGroup(index, attachment_info, group, seen) ==
    LET candidates == Candidates(index, attachment_info.file_name)
        unclaimed == index.some
                     /\ \E a \in DOMAIN candidates : candidates[a] \notin seen
    IN IF ~unclaimed
       THEN group = <<Remote(attachment_info.url)>>
       ELSE /\ Len(group) >= 1
            /\ \A g \in DOMAIN group : group[g].k = "Local"
            /\ group[1].name = attachment_info.file_name
            /\ group[1].path \in SeqToSet(candidates) \ seen
            /\ \A g \in 2..Len(group) :
                   \E i \in 1..(MaxVariants + 2) :
                       /\ group[g].path = Numbered(group[1].path, i)
                       /\ g > 2 =>
                              \E j \in 1..(i - 1) :
                                  group[g - 1].path
                                      = Numbered(group[1].path, j)

C13_LocalGroupOrOneRemote ==
    \A c \in DOMAIN resolver.calls :
        LET call == resolver.calls[c]
            kept == SelectSeq(call.attachments,
                        LAMBDA x : ~call.images_only
                                   \/ is_image_file(x.file_name))
        IN call.fn = "collect_sources" =>
               CASE Len(kept) = 0 -> call.out = <<>>
                 [] Len(kept) = 1 ->
                        SourceGroup(resolver.index, kept[1], call.out,
                                    call.before)
                 [] Len(kept) = 2 ->
                        \E n \in 1..(Len(call.out) - 1) :
                            LET head == SubSeq(call.out, 1, n)
                                rest == SubSeq(call.out, n + 1, Len(call.out))
                            IN /\ SourceGroup(resolver.index, kept[1], head,
                                              call.before)
                               /\ SourceGroup(resolver.index, kept[2], rest,
                                      call.before \cup LocalPaths(head))

\* a_001.png and then a.png were resolved to local files only, three or
\* more; a later message naming a.png twice got the URL twice
C13_Witness ==
    LET calls == resolver.calls IN
    /\ Len(calls) = 2
    /\ calls[1].fn = "collect_sources" /\ calls[2].fn = "collect_sources"
    /\ calls[1].attachments = <<AttA1, AttA>>
    /\ Len(calls[1].out) >= 3
    /\ \A a \in DOMAIN calls[1].out : calls[1].out[a].k = "Local"
    /\ calls[1].out[2].name = AttA.file_name
    /\ calls[2].attachments = <<AttA, AttA>>
    /\ calls[2].out = <<Remote(AttA.url), Remote(AttA.url)>>

(***************************************************************************)
(* C14.  Every batch of a message in image-paginated mode has at most      *)
(* MAX_EMBEDS embeds and at most MAX_ATTACHMENTS attachments, the avatar   *)
(* attachment of the first batch included, whatever the mix of local and   *)
(* remote sources and whichever local files fail to load.                  *)
(***************************************************************************)
C14_BatchWithinLimits ==
    \A b \in DOMAIN composer.batches :
        /\ Len(composer.batches[b].embeds) <= MAX_EMBEDS
        /\ Len(composer.batches[b].attachments) <= MAX_ATTACHMENTS

\* local files of which every third fails to load: the first batch is full
\* of attachments, the avatar among them, with fewer embeds than the limit,
\* and a second batch follows
C14_Witness ==
    /\ composer.done
    /\ Len(composer.batches) >= 2
    /\ Len(composer.batches[1].attachments) = MAX_ATTACHMENTS
    /\ Len(composer.batches[1].embeds) < MAX_EMBEDS
    /\ composer.batches[1].attachments[1] = Avatar1
    /\ \E b \in DOMAIN composer.image_sources :
           /\ composer.image_sources[b].k = "Local"
           /\ ~loads(composer.tree, composer.image_sources[b].path)

(***************************************************************************)
(* C15.  Fifteen local image sources that all load are sent as exactly two *)
(* batches of 10 and 5 images, whether or not the author has a local       *)
(* avatar.                                                                 *)
(***************************************************************************)
C15_FifteenImagesTenAndFive ==
    (/\ composer.done
     /\ Len(composer.image_sources) = 15
     /\ \A k \in DOMAIN composer.image_sources :
            /\ composer.image_sources[k].k = "Local"
            /\ loads(composer.tree, composer.image_sources[k].path)) =>
        /\ Len(composer.batches) = 2
        /\ Len(composer.batches[1].embeds) = 10
        /\ Len(composer.batches[2].embeds) = 5

(***************************************************************************)
(* C16.  With the button row requested and a reaction present, exactly one *)
(* batch of the message carries the row, and it is the last batch,         *)
(* whatever the sources are and whichever local files fail to load.        *)
(***************************************************************************)
C16_ButtonsOnFinalBatchOnly ==
    (composer.done /\ composer.buttons) =>
        /\ composer.batches # <<>>
        /\ \A b \in DOMAIN composer.batches :
               composer.batches[b].buttons <=> b = Len(composer.batches)

(***************************************************************************)
(* Vocabulary of the claims on the sends of a message.                     *)
(***************************************************************************)
\* the log positions of the sends of kind op made for message m
EntriesOf(r, m, op) ==
    {a \in MessageEntries(r.log) : r.log[a].msg = m.id /\ r.log[a].op = op}
\* the selected messages that the loop has completed
Completed(r) == {r.sel[k] : k \in 1..Min(r.idx, Len(r.sel))}
HasImage(m) ==
    \E a \in DOMAIN m.attachments : is_image_file(m.attachments[a].file_name)
AvatarResolved(r, m) ==
    /\ ~r.options.no_embed
    /\ r.file_index.some
    /\ find_avatar(m.author, r.file_index.paths).some
\* the progress notice was delivered, so the loop was entered
Started(r) ==
    /\ r.log # <<>>
    /\ r.log[1].text = "Importing messages"
    /\ r.log[1].ok

(***************************************************************************)
(* C17.  A completed message without image attachments, replayed in        *)
(* non-detached mode: no batch was sent for it when its body is empty and  *)
(* its author has no local avatar; exactly one batch, of one embed with    *)
(* the transformed body, was sent for it when its body is not empty.       *)
(***************************************************************************)
C17_TextMessageBatches ==
    \A i \in ImportIds :
        LET r == imp[i] IN
        \A m \in Completed(r) :
            (Issued(i) /\ ~r.options.outside /\ ~HasImage(m)) =>
                LET body == replace_mentions(m.content, m.mentions,
                                             r.options.no_mentions)
                    batches == EntriesOf(r, m, "batch")
                IN /\ (body = <<>> /\ ~AvatarResolved(r, m)) => batches = {}
                   /\ body # <<>> =>
                          /\ Cardinality(batches) = 1
                          /\ \A a \in batches :
                                 /\ Len(r.log[a].batch.embeds) = 1
                                 /\ r.log[a].batch.embeds[1].desc = body

\* an import with a media directory that completed a message with a body
\* and an empty message of an author without avatar
C17_Witness ==
    LET r == imp[1] IN
    /\ r.pc = "done" /\ r.file_index.some /\ ~r.options.outside
    /\ \E m, e \in Completed(r) :
           /\ ~HasImage(m) /\ m.content # <<>>
           /\ Cardinality(EntriesOf(r, m, "batch")) = 1
           /\ AvatarResolved(r, m)
           /\ ~HasImage(e) /\ e.content = <<>>
           /\ EntriesOf(r, e, "batch") = {}

(***************************************************************************)
(* C18.  A rejected batch send ends neither the message nor the import.    *)
(* After it the import is still in its loop and not marked cancelled; in   *)
(* image-paginated and detached mode the batches that were left for the    *)
(* message are the next to be sent; the position moves by at most one      *)
(* message.  An import that entered its loop and was not cancelled ends    *)
(* with all selected messages completed and its final notice.              *)
(***************************************************************************)
C18_Step(i) ==
    LET r == imp[i]
        q == imp'[i]
    IN (/\ r.pc = "send"
        /\ Len(q.log) = Len(r.log) + 1
        /\ Last(q.log).op = "batch"
        /\ ~Last(q.log).ok) =>
           /\ q.pc \in InLoop
           /\ q.cancelled = r.cancelled
           /\ q.idx = IF q.pc = "poll" THEN r.idx + 1 ELSE r.idx
           /\ (r.cur.mode \in {"image", "outside"}
               /\ Len(r.cur.batches) > 1) =>
                  /\ q.pc = "send"
                  /\ q.cur.batches = Tail(r.cur.batches)

C18_AllCompleted ==
    \A i \in ImportIds :
        LET r == imp[i] IN
        (Issued(i) /\ r.pc = "done" /\ Started(r) /\ ~r.cancelled) =>
            /\ r.idx = Len(r.sel)
            /\ SuccessNotice(Last(r.log))

C18_FailedSendDoesNotAbort ==
    /\ []C18_AllCompleted
    /\ [][\A i \in ImportIds : C18_Step(i)]_vars

\* the first batch of an image message was rejected, its second batch was
\* sent, a later message was replayed and the import ended with its notice
C18_Witness ==
    LET r == imp[1] IN
    /\ r.pc = "done" /\ ~r.cancelled /\ ~r.options.outside
    /\ SuccessNotice(Last(r.log))
    /\ \E a, b, c \in MessageEntries(r.log) :
           /\ a < b /\ b < c
           /\ r.log[a].op = "batch" /\ ~r.log[a].ok
           /\ r.log[a].batch.kind = "image"
           /\ r.log[b].op = "batch" /\ r.log[b].ok
           /\ r.log[b].msg = r.log[a].msg
           /\ r.log[c].op = "batch" /\ r.log[c].msg > r.log[a].msg

(***************************************************************************)
(* Vocabulary of the claim on a media root that gives no index.            *)
(***************************************************************************)
\* the import names a media root that is missing, cannot be fetched or
\* cannot be extracted
MediaFailed(r) ==
    /\ Len(r.tokens) > 1
    /\ r.tokens[2].t = "path"
    /\ r.tokens[2].a \in FailedRoots
\* the URLs of the attachments of m that pass the filter of the mode
FilteredUrls(r, m) ==
    LET filtered == SelectSeq(m.attachments,
                        LAMBDA a : r.options.outside
                                   \/ is_image_file(a.file_name))
    IN [k \in DOMAIN filtered |-> filtered[k].url]
\* the remote URLs one batch carries: embed images, then content links
BatchUrls(m, batch) ==
    LET urls == {m.attachments[k].url : k \in DOMAIN m.attachments}
        remote == SelectSeq(batch.embeds, LAMBDA e : e.image.k = "Remote")
    IN [k \in DOMAIN remote |-> remote[k].image.url]
       \o SelectSeq(batch.content, LAMBDA w : w \in urls)
\* the remote URLs of the batches handed over for m, from log position a
RECURSIVE EmittedUrls(_, _, _)
EmittedUrls(log, m, a) ==
    IF a > Len(log) THEN <<>>
    ELSE (IF log[a].op = "batch" /\ log[a].msg = m.id
          THEN BatchUrls(m, log[a].batch) ELSE <<>>)
         \o EmittedUrls(log, m, a + 1)

(***************************************************************************)
(* C19.  An import whose media root is missing, cannot be fetched or       *)
(* cannot be extracted still enters its loop, never fails, and, unless     *)
(* cancelled, completes every selected message; each completed message     *)
(* carries every attachment that passes the filter as its remote URL, in   *)
(* order and once, and no batch of it carries a file.                      *)
(***************************************************************************)
C19_NoIndexFallsBackToRemote ==
    \A i \in ImportIds :
        LET r == imp[i] IN
        (Issued(i) /\ MediaFailed(r)) =>
            /\ r.pc # "panic"
            /\ r.pc = "done" => r.log[1].text = "Importing messages"
            /\ (r.pc = "done" /\ Started(r) /\ ~r.cancelled) =>
                   /\ r.idx = Len(r.sel)
                   /\ SuccessNotice(Last(r.log))
            /\ \A m \in Completed(r) :
                   /\ EmittedUrls(r.log, m, 1) = FilteredUrls(r, m)
                   /\ \A a \in EntriesOf(r, m, "batch") :
                          r.log[a].batch.attachments = <<>>

\* an import over an archive that cannot be extracted has completed, in
\* detached mode, a message with image and document attachments
C19_Witness ==
    LET r == imp[1] IN
    /\ r.pc = "done" /\ ~r.cancelled /\ r.idx = Len(r.sel)
    /\ r.tokens[2] = PathTok(16)
    /\ r.options.outside
    /\ \E m \in Completed(r) :
           /\ Len(m.attachments) > 1
           /\ EmittedUrls(r.log, m, 1) =
                  [k \in DOMAIN m.attachments |-> m.attachments[k].url]

(***************************************************************************)
(* C20.  For a completed message, native reactions are added exactly when  *)
(* reactions are not disabled, buttons are not used, the message has a     *)
(* reaction and one of its batches was accepted; they are added after the  *)
(* batches, to the last accepted batch, one per reaction record, in the    *)
(* order of the records.                                                   *)
(***************************************************************************)
C20_NativeReactions ==
    \A i \in ImportIds :
        LET r == imp[i] IN
        \A m \in Completed(r) :
            Issued(i) =>
                LET reacts == EntriesOf(r, m, "react")
                    accepted == {a \in EntriesOf(r, m, "batch") : r.log[a].ok}
                    applies == /\ ~r.options.no_reactions
                               /\ ~r.options.button
                               /\ m.reactions # <<>>
                               /\ accepted # {}
                IN /\ ~applies => reacts = {}
                   /\ applies =>
                          /\ Cardinality(reacts) = Len(m.reactions)
                          /\ \A a \in reacts :
                                 LET k == Cardinality({b \in reacts : b <= a})
                                 IN /\ r.log[a].text = m.reactions[k].emoji
                                    /\ \A b \in EntriesOf(r, m, "batch") :
                                           b < a
                                    /\ \E b \in accepted :
                                           /\ r.log[a].n = r.log[b].n
                                           /\ \A c \in accepted : c <= b

\* a message with two reactions had its first batch accepted and its second
\* rejected, and both reactions were added to the first
C20_Witness ==
    LET r == imp[1] IN
    /\ r.pc = "done"
    /\ \E m \in Completed(r) :
           /\ Len(m.reactions) = 2
           /\ Cardinality(EntriesOf(r, m, "react")) = 2
           /\ \E a, b \in EntriesOf(r, m, "batch") :
                  a < b /\ r.log[a].ok /\ ~r.log[b].ok
           /\ \A a \in EntriesOf(r, m, "react") : r.log[a].n = 1

(***************************************************************************)
(* C21.  Every batch send, accepted or rejected, every reaction-user       *)
(* listing and every native reaction that is followed by another send of   *)
(* the import is followed by the pacing delay.                             *)
(***************************************************************************)
C21_DelayAfterEverySend ==
    \A i \in ImportIds :
        LET r == imp[i] IN
        \A a \in MessageEntries(r.log) :
            (a < Len(r.log) /\ r.log[a].op \in {"batch", "say", "react"}) =>
                r.log[a].delay

(***************************************************************************)
(* C22.  An import that entered its loop and has ended made exactly one    *)
(* send after the sends of its messages, its final notice: the             *)
(* cancellation message exactly when the loop found the flag set before a  *)
(* message, otherwise the success summary, which names what the footers of *)
(* the metadata embeds of its messages name.  The loop marks the import    *)
(* cancelled only at its head, before a message, on a set flag.            *)
(***************************************************************************)
FinalNotices(r) == {a \in DOMAIN r.log : a > 1 /\ r.log[a].msg = -1}

C22_Ended ==
    \A i \in ImportIds :
        LET r == imp[i]
            o == r.options
            shown == generate_footer(r.export, o.no_guild, o.no_category,
                                     o.no_channel)
        IN (Issued(i) /\ r.pc = "done" /\ Started(r)) =>
               /\ FinalNotices(r) = {Len(r.log)}
               /\ r.cancelled <=> CancelNotice(Last(r.log))
               /\ ~r.cancelled =>
                      /\ SuccessNotice(Last(r.log))
                      /\ Last(r.log).footer =
                             IF footer_is_empty(shown) THEN <<>> ELSE shown
                      /\ \A a \in MessageEntries(r.log) :
                             \A e \in DOMAIN r.log[a].batch.embeds :
                                 r.log[a].batch.embeds[e].meta =>
                                     r.log[a].batch.embeds[e].footer = shown

C22_Observed(i) ==
    (~imp[i].cancelled /\ imp'[i].cancelled) =>
        /\ imp[i].pc = "poll"
        /\ imp[i].idx < Len(imp[i].sel)
        /\ is_cancelled(cancellation_flags, imp[i].channel)
        /\ imp'[i].pc = "finish"

C22_OneFinalNotice ==
    /\ []C22_Ended
    /\ [][\A i \in ImportIds : C22_Observed(i)]_vars

\* an import that hides the guild has replayed a message with a metadata
\* embed and ended with the summary that names category and channel only
C22_Witness ==
    LET r == imp[1] IN
    /\ r.pc = "done" /\ Started(r) /\ ~r.cancelled
    /\ r.options.no_guild
    /\ Last(r.log).footer = <<"category", "general">>
    /\ \E a \in MessageEntries(r.log) :
           /\ r.log[a].op = "batch"
           /\ r.log[a].batch.embeds # <<>>
           /\ r.log[a].batch.embeds[1].meta
           /\ r.log[a].batch.embeds[1].footer = Last(r.log).footer

(***************************************************************************)
(* C23.  When send_image_messages hands over a batch, the first embed of   *)
(* the first batch is the metadata embed with the body text and an image,  *)
(* and every other embed of every batch is bare: no metadata, no text,     *)
(* only an image.                                                          *)
(***************************************************************************)
BareImageEmbed(e) ==
    ~e.meta /\ e.footer = <<>> /\ e.desc = <<>> /\ e.image.k # "None"

C23_OneMetadataEmbedFirst ==
    (composer.done /\ composer.batches # <<>>) =>
        /\ composer.batches[1].embeds # <<>>
        /\ composer.batches[1].embeds[1].meta
        /\ composer.batches[1].embeds[1].desc = composer.content
        /\ composer.batches[1].embeds[1].image.k # "None"
        /\ \A b \in DOMAIN composer.batches :
               \A e \in DOMAIN composer.batches[b].embeds :
                   (b # 1 \/ e # 1) =>
                       BareImageEmbed(composer.batches[b].embeds[e])

\* two batches were handed over for a list whose first source does not
\* load: the metadata embed shows the second source
C23_Witness ==
    /\ composer.done
    /\ Len(composer.batches) >= 2
    /\ Len(composer.image_sources) >= 2
    /\ composer.image_sources[1].k = "Local"
    /\ ~loads(composer.tree, composer.image_sources[1].path)
    /\ composer.batches[1].embeds[1].meta
    /\ composer.batches[1].embeds[1].image = composer.image_sources[2]
    /\ BareImageEmbed(composer.batches[2].embeds[1])

(***************************************************************************)
(* C24.  A local image that does not load gives the batch no embed and no  *)
(* attachment and does not end it: the first batch shows, in order, the    *)
(* sources that load or are remote, up to the end of the list or to a      *)
(* limit of the batch.                                                     *)
(***************************************************************************)
Usable(tree, source) == source.k = "Remote" \/ loads(tree, source.path)

C24_FailedLoadIsSkipped ==
    (composer.done /\ composer.batches # <<>>) =>
        LET tree == composer.tree
            first == composer.batches[1]
            usable == SelectSeq(composer.image_sources,
                          LAMBDA x : Usable(tree, x))
            shown == Len(first.embeds)
        IN /\ \A b \in DOMAIN composer.batches :
                  /\ \A e \in DOMAIN composer.batches[b].embeds :
                         Usable(tree, composer.batches[b].embeds[e].image)
                  /\ \A a \in DOMAIN composer.batches[b].attachments :
                         loads(tree, composer.batches[b].attachments[a])
           /\ shown <= Len(usable)
           /\ \A e \in 1..shown : first.embeds[e].image = usable[e]
           /\ shown < Len(usable) =>
                  \/ shown = MAX_EMBEDS
                  \/ Len(first.attachments) = MAX_ATTACHMENTS

\* the first batch shows sources on both sides of local images that do not
\* load
C24_Witness ==
    /\ composer.done
    /\ composer.batches # <<>>
    /\ \E a, b, c \in DOMAIN composer.image_sources :
           /\ a < b /\ b < c
           /\ composer.image_sources[b].k = "Local"
           /\ ~loads(composer.tree, composer.image_sources[b].path)
           /\ \E e \in DOMAIN composer.batches[1].embeds :
                  /\ composer.batches[1].embeds[e].image =
                         composer.image_sources[a]
                  /\ e < Len(composer.batches[1].embeds)
                  /\ composer.batches[1].embeds[e + 1].image =
                         composer.image_sources[c]
                  /\ composer.image_sources[c].k = "Local"

(***************************************************************************)
(* Vocabulary of the claims on send_outside_message alone.                 *)
(***************************************************************************)
\* the attachment and content batches, in the order they are handed over
Chunks == SelectSeq(composer.batches, LAMBDA b : b.kind = "chunk")
\* the paths of the local sources that load, in list order
LoadedLocals ==
    LET loaded == SelectSeq(composer.image_sources,
                      LAMBDA x : x.k = "Local" /\ loads(composer.tree, x.path))
    IN [k \in DOMAIN loaded |-> loaded[k].path]
\* the body followed by the URLs of the remote sources
CombinedText ==
    LET remote == SelectSeq(composer.image_sources, LAMBDA x : x.k = "Remote")
    IN composer.content \o [k \in DOMAIN remote |-> remote[k].url]

(***************************************************************************)
(* C25.  send_outside_message hands over the local attachments that load   *)
(* in list order, in chunks of at most MAX_ATTACHMENTS, each attachment in *)
(* one chunk; the first chunk carries the combined text and the later      *)
(* chunks none; when no local attachment loads and the combined text is    *)
(* not empty there is exactly one chunk, of content only.                  *)
(***************************************************************************)
C25_ChunksOfLocals ==
    composer.done =>
        /\ Flatten([k \in DOMAIN Chunks |-> Chunks[k].attachments])
               = LoadedLocals
        /\ \A k \in DOMAIN Chunks :
               /\ Len(Chunks[k].attachments) <= MAX_ATTACHMENTS
               /\ Chunks[k].content = IF k = 1 THEN CombinedText ELSE <<>>
               /\ k > 1 => Chunks[k].attachments # <<>>
        /\ (LoadedLocals = <<>> /\ CombinedText # <<>>) =>
               /\ Len(Chunks) = 1
               /\ Chunks[1].attachments = <<>>

\* more than MAX_ATTACHMENTS local attachments load beside remote ones: a
\* full chunk with the body and the URLs, then the rest without content
C25_Witness ==
    /\ composer.done
    /\ Len(Chunks) = 2
    /\ Len(Chunks[1].attachments) = MAX_ATTACHMENTS
    /\ Len(Chunks[1].content) > 2
    /\ Chunks[1].content[1] = "look"
    /\ Chunks[1].content[2] = "https://cdn/img.png"
    /\ Chunks[2].content = <<>>
    /\ Chunks[2].attachments # <<>>

(***************************************************************************)
(* C26.  A completed message with a reaction, replayed in detached mode    *)
(* with buttons: the last batch the platform accepted carries the button   *)
(* row, sent with it or edited onto it after the last batch; a chunk if    *)
(* one was accepted, otherwise the metadata batch.  When no batch was      *)
(* accepted nothing is edited.                                             *)
(***************************************************************************)
C26_ButtonsOnLastSentBatch ==
    \A i \in ImportIds :
        LET r == imp[i] IN
        \A m \in Completed(r) :
            (Issued(i) /\ r.options.outside /\ r.options.button
             /\ m.reactions # <<>>) =>
                LET batches == EntriesOf(r, m, "batch")
                    accepted == {a \in batches : r.log[a].ok}
                    edits == EntriesOf(r, m, "edit")
                IN /\ accepted = {} => edits = {}
                   /\ \A a \in accepted :
                          (\A b \in accepted : b <= a) =>
                              /\ Cardinality(edits) = 1
                              /\ \A e \in edits :
                                     /\ r.log[e].n = r.log[a].n
                                     /\ \A b \in batches : b < e
                              /\ (\E b \in accepted :
                                      r.log[b].batch.kind = "chunk") =>
                                     /\ r.log[a].batch.kind = "chunk"
                                     /\ r.log[a].batch.buttons

\* one message whose chunk was rejected, the row edited onto its metadata
\* batch, and one whose chunk was accepted, the row edited onto that chunk
C26_Witness ==
    LET r == imp[1] IN
    /\ r.pc = "done" /\ r.options.outside /\ r.options.button
    /\ \E m \in Completed(r) :
           /\ m.reactions # <<>>
           /\ \E a, b \in EntriesOf(r, m, "batch") :
                  /\ r.log[a].batch.kind = "meta" /\ r.log[a].ok
                  /\ r.log[b].batch.kind = "chunk" /\ ~r.log[b].ok
           /\ \E e \in EntriesOf(r, m, "edit") : r.log[e].n = 1
    /\ \E m \in Completed(r) :
           /\ m.reactions # <<>>
           /\ \E a, b \in EntriesOf(r, m, "batch") :
                  a < b /\ r.log[b].batch.kind = "chunk" /\ r.log[b].ok
           /\ \E e \in EntriesOf(r, m, "edit") : r.log[e].n > 1

(***************************************************************************)
(* C27.  A completed message replayed in detached mode.  With embeds: at   *)
(* most one batch of it is the embed-only metadata batch, and it comes     *)
(* before every attachment or content batch of the message.  With embeds   *)
(* disabled: no batch of it is a metadata batch or has an embed, and no    *)
(* batch attaches the avatar of its author.                                *)
(***************************************************************************)
C27_MetadataBatchFirst ==
    \A i \in ImportIds :
        LET r == imp[i] IN
        \A m \in Completed(r) :
            (Issued(i) /\ r.options.outside) =>
                LET batches == EntriesOf(r, m, "batch")
                    meta == {a \in batches : r.log[a].batch.kind = "meta"}
                IN IF ~r.options.no_embed
                   THEN /\ Cardinality(meta) <= 1
                        /\ \A a \in meta :
                               /\ Len(r.log[a].batch.embeds) = 1
                               /\ r.log[a].batch.content = <<>>
                               /\ \A b \in batches \ meta : a < b
                   ELSE /\ meta = {}
                        /\ \A a \in batches :
                               /\ r.log[a].batch.embeds = <<>>
                               /\ \A k \in DOMAIN r.log[a].batch.attachments :
                                      ~IsPrefix(AvatarDir,
                                           r.log[a].batch.attachments[k].dir)

\* with embeds, the metadata batch of one message was sent with the avatar
\* of its author and then its text, and the metadata batch of another before
\* the batch with its attachments
C27_Witness ==
    LET r == imp[1] IN
    /\ r.pc = "done" /\ r.options.outside /\ ~r.options.no_embed
    /\ \E m \in Completed(r) :
           \E a, b \in EntriesOf(r, m, "batch") :
               /\ a < b
               /\ r.log[a].batch.kind = "meta"
               /\ r.log[a].batch.attachments = <<Avatar1>>
               /\ r.log[b].batch.kind = "chunk"
    /\ \E m \in Completed(r) :
           \E a, b \in EntriesOf(r, m, "batch") :
               /\ a < b
               /\ r.log[a].batch.kind = "meta"
               /\ r.log[b].batch.kind = "chunk"
               /\ r.log[b].batch.attachments # <<>>

(***************************************************************************)
(* C28.  The sends of one import are ordered: the progress notice is the   *)
(* first; the sends of a message come after the sends of the messages      *)
(* before it; the reaction-user listing of a message comes after all its   *)
(* batches; the only other notice is the final one, after which nothing is *)
(* sent.                                                                   *)
(***************************************************************************)
C28_OutputOrdered ==
    \A i \in ImportIds :
        LET r == imp[i]
            log == r.log
        IN Issued(i) =>
               /\ MessageEntries(log) # {} =>
                      /\ log[1].msg = -1
                      /\ log[1].text = "Importing messages"
               /\ \A a, b \in MessageEntries(log) :
                      /\ a < b => log[a].msg <= log[b].msg
                      /\ (log[a].op = "say" /\ log[b].op = "batch"
                          /\ log[a].msg = log[b].msg) => b < a
               /\ \A a \in DOMAIN log :
                      (a > 1 /\ log[a].msg = -1) =>
                          /\ a = Len(log)
                          /\ r.pc = "done"
                          /\ CancelNotice(log[a]) \/ SuccessNotice(log[a])
               /\ (r.pc = "done" /\ Started(r)) => Last(log).msg = -1

\* an ended import: the notice, two batches and the listing of one message,
\* the sends of the next message, the final notice
C28_Witness ==
    LET r == imp[1] IN
    /\ r.pc = "done" /\ Started(r) /\ SuccessNotice(Last(r.log))
    /\ \E a, b, c, d \in MessageEntries(r.log) :
           /\ a < b /\ b < c /\ c < d
           /\ r.log[a].op = "batch" /\ r.log[b].op = "batch"
           /\ r.log[c].op = "say"
           /\ r.log[a].msg = r.log[c].msg /\ r.log[b].msg = r.log[c].msg
           /\ r.log[d].msg > r.log[c].msg

(***************************************************************************)
(* C29.  The scan roots of a media directory: the root alone when it has   *)
(* no subdirectory; otherwise exactly the directories that exist among     *)
(* avatars, emojis and icons, and channels/<export name> if it exists or   *)
(* else channels if it exists; no file outside them is scanned.            *)
(***************************************************************************)
C29_ScanRoots ==
    resolver.done =>
        LET dirs == resolver.tree.dirs
            specific == <<"channels", resolver.export_name>>
            roots ==
                {d \in {<<"avatars">>, <<"emojis">>, <<"icons">>} : d \in dirs}
                \cup (IF specific \in dirs THEN {specific}
                      ELSE IF <<"channels">> \in dirs THEN {<<"channels">>}
                      ELSE {})
        IN IF \A d \in dirs : Len(d) # 1
           THEN resolver.search_paths = <<(<<>>)>>
           ELSE /\ SeqToSet(resolver.search_paths) = roots
                /\ \A k \in DOMAIN resolver.index :
                       \E d \in roots : IsPrefix(d, resolver.index[k].dir)

(***************************************************************************)
(* C30.  The probe for the numbered variants of a resolved file f goes on  *)
(* to the first number whose file is not on disk: the call returns, after  *)
(* f, the variants before that number that were not claimed, in ascending  *)
(* order, and claims them; a claimed variant is left out and the variants  *)
(* after it are still returned.                                            *)
(***************************************************************************)
C30_ProbeSkipsClaimedVariants ==
    LET calls == resolver.calls IN
    \A c \in DOMAIN calls :
        (calls[c].fn = "find_local_files" /\ calls[c].out # <<>>) =>
            LET f == calls[c].out[1].path
                k == VariantRun(resolver.index.tree, f)
                unclaimed == SelectSeq([i \in 1..k |-> Numbered(f, i)],
                                 LAMBDA p : p \notin calls[c].before)
            IN /\ Len(calls[c].out) = 1 + Len(unclaimed)
               /\ \A g \in DOMAIN unclaimed :
                      /\ calls[c].out[g + 1] =
                             Local(unclaimed[g], unclaimed[g].file)
                      /\ unclaimed[g] \in calls[c].after

\* a_001.png was resolved by name first; the later resolution of a.png
\* returned a.png, a_002.png and a_003.png
C30_Witness ==
    LET calls == resolver.calls IN
    /\ Len(calls) = 2
    /\ calls[1].fn = "find_local_files" /\ calls[2].fn = "find_local_files"
    /\ calls[1].out = <<Local(Path(ChatDir, VariantFile(1)), VariantFile(1))>>
    /\ calls[2].attachments[1].file_name = AttA.file_name
    /\ Len(calls[2].out) = 3
    /\ calls[2].out[1].path = Path(ChatDir, VariantFile(0))
    /\ calls[2].out[2].path = Path(ChatDir, VariantFile(2))
    /\ calls[2].out[3].path = Path(ChatDir, VariantFile(3))

(***************************************************************************)
(* C31.  The count on the label of a reaction is the JSON count when that  *)
(* is a number that is an integer and not negative, and 1 for a negative   *)
(* or fractional number and for every value that is not a number.          *)
(***************************************************************************)
C31_CountOrOne ==
    composer.done =>
        /\ Len(composer.labels) = Len(composer.counts)
        /\ \A k \in DOMAIN composer.counts :
               LET count == composer.counts[k] IN
               composer.labels[k] =
                   IF count.t = "Number" /\ count.n # "Float" /\ count.v >= 0
                   THEN count.v ELSE 1

\* two reactions: a count of MaxCount, used as it is, and a negative count,
\* shown as 1
C31_Witness ==
    /\ composer.done
    /\ composer.counts = <<JsonNumber("PosInt", MaxCount),
                           JsonNumber("NegInt", -MaxCount)>>
    /\ composer.labels = <<MaxCount, 1>>

(***************************************************************************)
(* C32.  An import that entered its loop and in whose channel a cancel     *)
(* command answered "Cancelling import..." ends with the cancellation      *)
(* message, also when the command came while the last selected message was *)
(* being replayed.  (The one import of the specification is the only one   *)
(* that can have put the entry the command found.)                         *)
(***************************************************************************)
C32_AcknowledgedCancelCancels ==
    LET r == imp[1] IN
    (/\ r.pc = "done"
     /\ Started(r)
     /\ \E c \in DOMAIN cancel_log :
            /\ cancel_log[c].channel = r.channel
            /\ cancel_log[c].message = "Cancelling import...") =>
        CancelNotice(Last(r.log))

(***************************************************************************)
(* C33.  send_image_messages shows no source in two embeds: a local source *)
(* that loads is the image of exactly one embed of the batches, a local    *)
(* source that does not load of none, and the remote sources have as many  *)
(* embeds as there are remote sources.                                     *)
(***************************************************************************)
EmbedsShowing(shows(_)) ==
    {be \in (DOMAIN composer.batches) \X (1..MAX_EMBEDS) :
        /\ be[2] <= Len(composer.batches[be[1]].embeds)
        /\ shows(composer.batches[be[1]].embeds[be[2]].image)}

C33_EachSourceOnce ==
    composer.done =>
        /\ \A k \in DOMAIN composer.image_sources :
               LET source == composer.image_sources[k] IN
               source.k = "Local" =>
                   Cardinality(EmbedsShowing(LAMBDA image : image = source))
                       = IF loads(composer.tree, source.path) THEN 1 ELSE 0
        /\ Cardinality(EmbedsShowing(LAMBDA image : image.k = "Remote"))
               = Cardinality({k \in DOMAIN composer.image_sources :
                                 composer.image_sources[k].k = "Remote"})

(***************************************************************************)
(* C34.  The while loop of send_image_messages ends on every source list,  *)
(* whichever local sources do not load: each round shortens the list of    *)
(* remaining sources or is the last, so the loop is eventually over.       *)
(***************************************************************************)
C34_LoopTerminates ==
    /\ <>(composer.done)
    /\ [][composer'.done
          \/ Len(composer'.remaining_images)
                 < Len(composer.remaining_images)]_vars

\* the loop ended after a batch, in a round in which none of the sources
\* that remained could be loaded
C34_Witness ==
    /\ composer.done
    /\ composer.batches # <<>>
    /\ composer.remaining_images # <<>>
    /\ \A k \in DOMAIN composer.remaining_images :
           ~Usable(composer.tree, composer.remaining_images[k])


(***************************************************************************)
(* C35.  A message with body text gives at least one batch that carries    *)
(* the text: once send_image_messages is over, some embed of some batch    *)
(* has the text as its description, whichever local sources fail to load.  *)
(***************************************************************************)
C35_BodyTextIsSent ==
    (composer.done /\ composer.content # <<>>) =>
        \E b \in DOMAIN composer.batches :
            \E e \in DOMAIN composer.batches[b].embeds :
                composer.batches[b].embeds[e].desc = composer.content


(***************************************************************************)
(* C36.  Detached mode with buttons and a reaction, every send accepted:   *)
(* of the batches sent for a message exactly one carries the button row    *)
(* in the end, sent with it or edited onto it (the edit goes to the last   *)
(* batch, cli.rs 408-417), however many chunks there are.                  *)
(***************************************************************************)
C36_OneBatchWithButtons ==
    (composer.done /\ composer.buttons /\ composer.batches # <<>>) =>
        Cardinality({b \in DOMAIN composer.batches :
                        \/ composer.batches[b].buttons
                        \/ b = Len(composer.batches)}) = 1


(***************************************************************************)
(* C37.  A cancel command that finds no entry for its channel leaves the   *)
(* flag map as it was, so no entry appears, and answers that no import is  *)
(* ongoing; and an import is recorded as cancelled only when a cancel      *)
(* command of its channel was acknowledged, so a command answered with     *)
(* "No ongoing import" before the import began does not cancel it.         *)
(***************************************************************************)
C37_Step ==
    /\ Len(cancel_log') > Len(cancel_log) =>
           LET reply == Last(cancel_log') IN
           reply.channel \notin DOMAIN cancellation_flags =>
               /\ cancellation_flags' = cancellation_flags
               /\ reply.channel \notin DOMAIN cancellation_flags'
               /\ reply.message = "No ongoing import in this channel."
    /\ \A i \in ImportIds :
           (imp'[i].cancelled /\ ~imp[i].cancelled) =>
               Acknowledged(imp[i].channel)

C37_CancelWithoutEntry == [][C37_Step]_vars

\* the only cancel command so far came before the import began and was told
\* that no import is ongoing; the import has since completed a message and
\* stands in its loop with its flag false
C37_Witness ==
    LET r == imp[1] IN
    /\ cancel_log = <<[channel |-> r.channel,
                       message |-> "No ongoing import in this channel."]>>
    /\ r.pc \in InLoop /\ r.idx > 0 /\ ~r.cancelled
    /\ r.channel \in DOMAIN cancellation_flags
    /\ ~cancellation_flags[r.channel]


(***************************************************************************)
(* C38.  Whatever the list, the empty one included, and whatever the four  *)
(* selectors, select_messages does not panic on a slice bound and returns  *)
(* messages[lo..hi] for some 0 <= lo <= hi <= len: a contiguous part of    *)
(* the list in its order.                                                  *)
(***************************************************************************)
C38_ContiguousSliceNoPanic ==
    sel_out.done =>
        /\ ~sel_out.panic
        /\ \E lo, hi \in 0..Len(sel_in.messages) :
               /\ lo <= hi
               /\ sel_out.out = SubSeq(sel_in.messages, lo + 1, hi)

\* the empty list with the range 0,0 and a last-N beyond its length: the
\* range arm is entered, its test fails before len - 1 is computed, and
\* the empty list is returned
C38_Witness ==
    /\ sel_out.done /\ ~sel_out.panic
    /\ sel_in.messages = <<>>
    /\ sel_in.range_start = Some(0) /\ sel_in.range_end = Some(0)
    /\ sel_in.last.some /\ sel_in.last.v > 0
    /\ sel_out.out = <<>>

(***************************************************************************)
(* C39.  With exactly one of range start and range end given the range is  *)
(* ignored: a first-N with N > 0 selects the first min(N, len) messages;   *)
(* otherwise a last-N with N > 0 selects the last min(N, len); otherwise   *)
(* the whole list is selected.                                             *)
(***************************************************************************)
ValidN(selector) == selector.some /\ selector.v > 0

C39_HalfRangeIgnored ==
    (sel_out.done /\ sel_in.range_start.some # sel_in.range_end.some) =>
        sel_out.out =
            IF ValidN(sel_in.first)
            THEN FirstOf(sel_in.messages, sel_in.first.v)
            ELSE IF ValidN(sel_in.last)
            THEN LastOf(sel_in.messages, sel_in.last.v)
            ELSE sel_in.messages

====
